---- MODULE Spec2Model ----
(***************************************************************************)
(* Model of the prefix-search pipeline of tools/nd_cli.py: query           *)
(* normalization, bucket classification, shard selection, the capped       *)
(* prefix scan, scoring, per-id deduplication, ranking and truncation.     *)
(*                                                                         *)
(* Strings are sequences of Unicode code points (integers); string order   *)
(* is Python's code-point lexicographic order.                             *)
(***************************************************************************)
EXTENDS Integers, Sequences, FiniteSets, TLC

VARIABLES
    manifest,      \* manifest["domains"]: domain -> mode -> list of shard names
    shards,        \* shard name -> [keys: key array, map: key -> id list]
    rank,          \* data/seed/index/word_rank.json: [exists, table: id -> info]
    domain, mode, query, limit, max_keys, common_first,   \* arguments of the call
    pc,            \* "ready" before the call of search_prefix, "done" after
    scans,         \* one record per variant processed: the loop's locals
    out,           \* the list search_prefix returned
    text,          \* the string a normalizer or the classifier is called on
    fn,            \* the function of the normalizer called, "none" when none is
    vals,          \* the values returned by the successive calls of fn
    gathered,      \* cmd_search: the entries of all its searches, tagged
    cmd_final,     \* cmd_search: its list `final`, which it prints
    show,          \* cmd_search: args.format and args.details
    shown,         \* cmd_search: the number of entries of final its output loop has done
    card_calls,    \* cmd_search: the calls of word_card and name_card it made, in order
    repo,          \* the entry files on disk: word chunks, language chunks, names
    call,          \* the card function called, with its id and lang_pref
    card,          \* what the call returned or raised
    disk,          \* the JSON files on disk: resource -> state of its .json and of its .json.gz
    cache,         \* the lru_cache of every cached loader: its entries, oldest first
    calls,         \* the calls of the loaders made so far, with what each opened and returned
    fs,            \* the repository tree of the housekeeping tools: its files and directories
    plan,          \* tools/compression_plan.json: the stems each pattern list of its policy matches
    job,           \* the run of the housekeeping tool in progress or last finished
    runs           \* the number of runs of housekeeping tools started

searchVars == <<manifest, shards, rank, domain, mode, query, limit, max_keys,
                common_first, pc, scans, out>>

normVars == <<text, fn, vals>>

cmdVars == <<gathered, cmd_final, show, shown, card_calls>>

cardVars == <<repo, call, card>>

storeVars == <<disk, cache, calls>>

toolVars == <<fs, plan, job, runs>>

vars == <<searchVars, normVars, cmdVars, cardVars, storeVars, toolVars>>

\* no call of a normalizer function is under way
NormIdle == text = <<>> /\ fn = "none" /\ vals = <<>>

\* cmd_search is not running
CmdIdle ==
    /\ gathered = <<>> /\ cmd_final = <<>>
    /\ show = [format |-> "text", details |-> FALSE]
    /\ shown = 0 /\ card_calls = <<>>

\* the value of card before the call returns; the fields of a returned card
\* say which keys the dict has (keys) and hold the values of those keys
NoCard ==
    [ done |-> FALSE, raised |-> FALSE, exc |-> "", keys |-> {}, id |-> 0,
      error |-> "", primary |-> "None", senses |-> <<>>, translations_en |-> <<>> ]

\* no card is asked for
CardIdle ==
    /\ repo = [word_chunks |-> <<>>, en_words |-> <<>>, it_meta_exists |-> FALSE,
               it_files |-> <<>>, names_meta |-> <<>>, names_files |-> <<>>]
    /\ call = [fn |-> "none", id |-> 0, lang_pref |-> "it"]
    /\ card = NoCard

\* no loader has been called
StoreIdle == disk = <<>> /\ cache = <<>> /\ calls = <<>>

ToolIdle == fs = <<>> /\ plan = <<>> /\ job = <<>> /\ runs = 0

(***************************************************************************)
(* Bounds of the model.                                                    *)
(***************************************************************************)
MaxQueryLen == 2     \* queries have at most this many code points
MaxLimit == 3        \* limit ranges over 0..MaxLimit
MaxCap == 3          \* max_keys ranges over 0..MaxCap
MaxScore == 1        \* rank scores range over 0..MaxScore
MaxBases == 2        \* a (domain, mode) shard list has 1..MaxBases names
MaxTextLen == 2      \* the strings given to the normalizer have at most this many code points
MaxCardId == 6       \* the ids cards are asked for range over 1..MaxCardId
MaxCalls == 2        \* a process calls the loaders at most this many times
MaxRuns == 2         \* at most this many runs of housekeeping tools are started
MaxLangCalls == 6    \* a process that calls load_word_lang_chunk alone makes at most this many calls
MaxRanges == 4       \* load_word_lang_chunk is called with at most this many ranges besides the chunk range

(***************************************************************************)
(* Code points used by queries and keys.                                   *)
(***************************************************************************)
CP == [ NL |-> 10,            \* line feed
        A |-> 65,            \* 'A'
        a |-> 97,            \* 'a'
        s |-> 115,           \* 's'
        AAcute |-> 193,      \* U+00C1 = 'A' U+0301 composed
        SharpS |-> 223,      \* U+00DF, casefolds to "ss"
        aAcute |-> 225,      \* U+00E1 = 'a' U+0301 composed
        sAcute |-> 347,      \* U+015B = 's' U+0301 composed
        Acute |-> 769,       \* U+0301 combining acute accent
        Dakuten |-> 12441,   \* U+3099 combining voiced sound mark
        HiraA |-> 12354,     \* U+3042
        HiraWa |-> 12431,    \* U+308F
        KataA |-> 12450,     \* U+30A2
        KataWa |-> 12527,    \* U+30EF
        KataVa |-> 12535,    \* U+30F7 = U+30EF U+3099 composed
        Choon |-> 12540,     \* U+30FC prolonged sound mark
        Kanji |-> 28450,     \* U+6F22
        FullA |-> 65313,     \* U+FF21 fullwidth 'A'
        Fulla |-> 65345,     \* U+FF41 fullwidth 'a'
        Fulls |-> 65363 ]    \* U+FF53 fullwidth 's'

(***************************************************************************)
(* Strings.                                                                *)
(***************************************************************************)
Min(a, b) == IF a <= b THEN a ELSE b

\* Python str.startswith
startswith(s, p) ==
    /\ Len(p) <= Len(s)
    /\ \A i \in 1..Len(p) : s[i] = p[i]

\* Python's `a < b` on str: lexicographic by code point
StrLess(a, b) ==
    LET n == Min(Len(a), Len(b))
        diff == {i \in 1..n : a[i] # b[i]}
    IN  IF diff = {}
        THEN Len(a) < Len(b)
        ELSE LET d == CHOOSE i \in diff : \A j \in diff : i <= j
             IN  a[d] < b[d]

RECURSIVE Concat(_)
\* "".join(parts)
Concat(parts) ==
    IF parts = <<>> THEN <<>> ELSE Head(parts) \o Concat(Tail(parts))

StringsUpTo(alphabet, n) == UNION {[1..k -> alphabet] : k \in 0..n}

(***************************************************************************)
(* Regular expressions of nd_cli.py. `^[class]+$` matches a non-empty run  *)
(* of class characters, optionally followed by one final newline ($).      *)
(***************************************************************************)
InKanjiClass(c) ==
    \/ (13312 <= c /\ c <= 19903)      \* 㐀-䶿
    \/ (19968 <= c /\ c <= 40959)      \* 一-鿿
    \/ (63744 <= c /\ c <= 64255)      \* 豈-﫿

InHiraganaClass(c) ==
    \/ (12352 <= c /\ c <= 12447)      \* ぀-ゟ
    \/ c = 12540                       \* ー

InKatakanaClass(c) ==
    \/ (12448 <= c /\ c <= 12543)      \* ゠-ヿ
    \/ (12784 <= c /\ c <= 12799)      \* ㇰ-ㇿ

InLatinishClass(c) ==
    \/ (65 <= c /\ c <= 90) \/ (97 <= c /\ c <= 122) \/ (48 <= c /\ c <= 57)
    \/ c \in {32, 45, 95, 34, 39, 46, 47, 58, 43, 38, 40, 41}
    \/ (65313 <= c /\ c <= 65338) \/ (65345 <= c /\ c <= 65370)
    \/ (65296 <= c /\ c <= 65305)
    \/ c \in {12288, 65293, 65343}

\* the characters `$` leaves to be matched by the class: all of s, or all but
\* one final newline
BodyLen(s) == IF Len(s) >= 2 /\ s[Len(s)] = 10 THEN Len(s) - 1 ELSE Len(s)

HIRAGANA_RE(s) == BodyLen(s) >= 1 /\ \A i \in 1..BodyLen(s) : InHiraganaClass(s[i])
KATAKANA_RE(s) == BodyLen(s) >= 1 /\ \A i \in 1..BodyLen(s) : InKatakanaClass(s[i])
LATINISH_RE(s) == BodyLen(s) >= 1 /\ \A i \in 1..BodyLen(s) : InLatinishClass(s[i])
KANJI_RE(s) == \E i \in 1..Len(s) : InKanjiClass(s[i])

(***************************************************************************)
(* unicodedata.normalize("NFKC", .) and str.casefold, on the code points   *)
(* the model uses. NFKC: compatibility decomposition (fullwidth ASCII      *)
(* variants to ASCII, the ideographic space to a space, U+30F7 and the     *)
(* accented letters to base and mark), canonical ordering of the marks by  *)
(* combining class, canonical composition. casefold: U+00DF to "ss",       *)
(* capital letters (ASCII, Latin-1 and fullwidth) to small ones.           *)
(***************************************************************************)
CompatChar(c) ==
    IF 65281 <= c /\ c <= 65374 THEN c - 65248
    ELSE IF c = 12288 THEN 32
    ELSE c

\* the full decomposition of one code point
DecomposeChar(c) ==
    IF c = CP.KataVa THEN <<CP.KataWa, CP.Dakuten>>
    ELSE IF c = CP.AAcute THEN <<CP.A, CP.Acute>>
    ELSE IF c = CP.aAcute THEN <<CP.a, CP.Acute>>
    ELSE IF c = CP.sAcute THEN <<CP.s, CP.Acute>>
    ELSE <<CompatChar(c)>>

\* the canonical combining class: 0 for a starter
CombiningClass(c) ==
    IF c = CP.Dakuten THEN 8 ELSE IF c = CP.Acute THEN 230 ELSE 0

\* the primary composite of a starter and a mark, 0 when there is none
Composite(l, c) ==
    IF l = CP.KataWa /\ c = CP.Dakuten THEN CP.KataVa
    ELSE IF l = CP.A /\ c = CP.Acute THEN CP.AAcute
    ELSE IF l = CP.a /\ c = CP.Acute THEN CP.aAcute
    ELSE IF l = CP.s /\ c = CP.Acute THEN CP.sAcute
    ELSE 0

RECURSIVE InsertMark(_, _)
\* canonical ordering: c moves left past the marks of a higher class
InsertMark(acc, c) ==
    IF /\ acc # <<>>
       /\ CombiningClass(c) # 0
       /\ CombiningClass(acc[Len(acc)]) > CombiningClass(c)
    THEN Append(InsertMark(SubSeq(acc, 1, Len(acc) - 1), c), acc[Len(acc)])
    ELSE Append(acc, c)

RECURSIVE CanonicalOrder(_, _)
CanonicalOrder(acc, rest) ==
    IF rest = <<>> THEN acc
    ELSE CanonicalOrder(InsertMark(acc, Head(rest)), Tail(rest))

RECURSIVE Compose(_, _, _, _)
\* canonical composition, left to right, of `rest` onto `acc`; starter is the
\* position in acc of the last starter, last the combining class of the last
\* code point kept since (256 while acc begins with a mark)
Compose(acc, starter, last, rest) ==
    IF rest = <<>> THEN acc
    ELSE LET c == Head(rest)
             cc == CombiningClass(c)
         IN  IF acc = <<>>
             THEN Compose(<<c>>, 1, IF cc # 0 THEN 256 ELSE 0, Tail(rest))
             ELSE IF Composite(acc[starter], c) # 0 /\ (last < cc \/ last = 0)
             THEN Compose([acc EXCEPT ![starter] = Composite(acc[starter], c)],
                          starter, last, Tail(rest))
             ELSE Compose(Append(acc, c),
                          IF cc = 0 THEN Len(acc) + 1 ELSE starter, cc, Tail(rest))

NFKC(s) ==
    LET nfkd == CanonicalOrder(<<>>, Concat([i \in 1..Len(s) |-> DecomposeChar(s[i])]))
    IN  Compose(<<>>, 0, 0, nfkd)

CasefoldChar(c) ==
    IF c = CP.SharpS THEN <<CP.s, CP.s>>
    ELSE IF \/ (65 <= c /\ c <= 90)
            \/ (192 <= c /\ c <= 222 /\ c # 215)
            \/ (65313 <= c /\ c <= 65338)
         THEN <<c + 32>>
    ELSE <<c>>

casefold(s) == Concat([i \in 1..Len(s) |-> CasefoldChar(s[i])])

(***************************************************************************)
(* Text normalizer.                                                        *)
(***************************************************************************)
AsciiToFullwidthChar(c) ==
    IF c = 32 THEN 12288
    ELSE IF 33 <= c /\ c <= 126 THEN c + 65248
    ELSE c

ascii_to_fullwidth(s) == [i \in 1..Len(s) |-> AsciiToFullwidthChar(s[i])]

fullwidth_mixed(s) == [i \in 1..Len(s) |-> AsciiToFullwidthChar(s[i])]

\* mutant of KataToHiraChar: folds the whole katakana block up to U+30FA
KataToHiraCharWholeBlock(c) == IF 12449 <= c /\ c <= 12538 THEN c - 96 ELSE c

KataToHiraChar(c) == IF 12449 <= c /\ c <= 12534 THEN c - 96 ELSE c

kata_to_hira(s) == [i \in 1..Len(s) |-> KataToHiraChar(s[i])]

normalize_base(q) ==
    LET q2 == casefold(NFKC(q))
    IN  IF LATINISH_RE(q2) THEN ascii_to_fullwidth(q2) ELSE q2

normalize_query_search(q) == kata_to_hira(normalize_base(q))

RECURSIVE Dedup(_, _)
\* the de-duplication loop: keeps the non-empty candidates not seen before
Dedup(candidates, acc) ==
    IF candidates = <<>> THEN acc
    ELSE LET c == Head(candidates)
         IN  IF c # <<>> /\ ~(\E i \in 1..Len(acc) : acc[i] = c)
             THEN Dedup(Tail(candidates), Append(acc, c))
             ELSE Dedup(Tail(candidates), acc)

normalize_query_search_variants(q) ==
    LET nfkc == NFKC(q)
        base_raw == nfkc
        base_fold == casefold(nfkc)
        candidates == << kata_to_hira(normalize_base(base_fold)),
                         kata_to_hira(fullwidth_mixed(base_fold)),
                         kata_to_hira(normalize_base(base_raw)),
                         kata_to_hira(fullwidth_mixed(base_raw)) >>
    IN  Dedup(candidates, <<>>)

\* mutant of normalize_query_lookup_candidates: the folded form is added
\* without the test `q1 != q0`
LookupCandidatesAlwaysTwo(q) ==
    LET q0 == normalize_base(q)
        q1 == kata_to_hira(q0)
    IN  <<q0, q1>>

normalize_query_lookup_candidates(q) ==
    LET q0 == normalize_base(q)
        q1 == kata_to_hira(q0)
    IN  IF q1 # q0 THEN <<q0, q1>> ELSE <<q0>>

(***************************************************************************)
(* Bucket classifier.                                                      *)
(***************************************************************************)
Buckets == {"hiragana", "katakana", "latin", "kanji", "other"}

\* mutant of detect_bucket: the katakana test comes before the hiragana test
DetectBucketKatakanaFirst(q) ==
    IF KATAKANA_RE(q) THEN "katakana"
    ELSE IF HIRAGANA_RE(q) THEN "hiragana"
    ELSE IF LATINISH_RE(q) THEN "latin"
    ELSE IF KANJI_RE(q) THEN "kanji"
    ELSE "other"

detect_bucket(q) ==
    IF HIRAGANA_RE(q) THEN "hiragana"
    ELSE IF KATAKANA_RE(q) THEN "katakana"
    ELSE IF LATINISH_RE(q) THEN "latin"
    ELSE IF KANJI_RE(q) THEN "kanji"
    ELSE "other"

(***************************************************************************)
(* Prefix search engine.                                                   *)
(***************************************************************************)
RECURSIVE BisectLoop(_, _, _, _)
\* the loop of bisect.bisect_left, on 0-based lo and hi
BisectLoop(keys, x, lo, hi) ==
    IF lo < hi
    THEN LET mid == (lo + hi) \div 2
         IN  IF StrLess(keys[mid + 1], x)
             THEN BisectLoop(keys, x, mid + 1, hi)
             ELSE BisectLoop(keys, x, lo, mid)
    ELSE lo

RECURSIVE BisectRightLoop(_, _, _, _)
BisectRightLoop(keys, x, lo, hi) ==
    IF lo < hi
    THEN LET mid == (lo + hi) \div 2
         IN  IF StrLess(x, keys[mid + 1])
             THEN BisectRightLoop(keys, x, lo, mid)
             ELSE BisectRightLoop(keys, x, mid + 1, hi)
    ELSE lo

\* mutant of bisect_left: bisect_right, which starts after a key equal to x
bisect_right(keys, x) == BisectRightLoop(keys, x, 0, Len(keys))

bisect_left(keys, x) == BisectLoop(keys, x, 0, Len(keys))

\* b.endswith(bucket): a shard name is the list of its '_'-separated words
endswith(b, bucket) == Len(b) >= 1 /\ b[Len(b)] = bucket

\* mutant of SelectBase: the loop without its break, the last match wins
SelectBaseLastMatch(bases, bucket) ==
    LET hits == {i \in 1..Len(bases) : endswith(bases[i], bucket)}
    IN  IF hits # {}
        THEN bases[CHOOSE i \in hits : \A j \in hits : i >= j]
        ELSE bases[Len(bases)]

\* the loop over bases and the fallback to bases[-1]
SelectBase(bases, bucket) ==
    LET hits == {i \in 1..Len(bases) : endswith(bases[i], bucket)}
    IN  IF hits # {}
        THEN bases[CHOOSE i \in hits : \A j \in hits : i <= j]
        ELSE bases[Len(bases)]

RECURSIVE ScanLoopNoPrefixTest(_, _, _, _, _)
\* mutant of ScanLoop: the loop without the startswith test
ScanLoopNoPrefixTest(keys, prefix, i, match_keys, cap) ==
    IF i < Len(keys)
    THEN LET mk == Append(match_keys, keys[i + 1])
         IN  IF Len(mk) >= cap
             THEN [match_keys |-> mk, stop |-> i + 1]
             ELSE ScanLoopNoPrefixTest(keys, prefix, i + 1, mk, cap)
    ELSE [match_keys |-> match_keys, stop |-> i]

RECURSIVE ScanLoopNoCap(_, _, _, _, _)
\* mutant of ScanLoop: the loop without the max_keys break
ScanLoopNoCap(keys, prefix, i, match_keys, cap) ==
    IF i < Len(keys) /\ startswith(keys[i + 1], prefix)
    THEN ScanLoopNoCap(keys, prefix, i + 1, Append(match_keys, keys[i + 1]), cap)
    ELSE [match_keys |-> match_keys, stop |-> i]

RECURSIVE ScanLoop(_, _, _, _, _)
\* the while loop collecting match_keys from 0-based position i
ScanLoop(keys, prefix, i, match_keys, cap) ==
    IF i < Len(keys) /\ startswith(keys[i + 1], prefix)
    THEN LET mk == Append(match_keys, keys[i + 1])
         IN  IF Len(mk) >= cap
             THEN [match_keys |-> mk, stop |-> i + 1]
             ELSE ScanLoop(keys, prefix, i + 1, mk, cap)
    ELSE [match_keys |-> match_keys, stop |-> i]

\* mp.get(k, [])
MapGet(mp, k) == IF k \in DOMAIN mp THEN mp[k] ELSE <<>>

RECURSIVE Unique(_, _)
\* the elements of a list not seen before, in order
Unique(items, acc) ==
    IF items = <<>> THEN acc
    ELSE IF \E i \in 1..Len(acc) : acc[i] = Head(items)
         THEN Unique(Tail(items), acc)
         ELSE Unique(Tail(items), Append(acc, Head(items)))

\* the (k, wid) pairs visited by the scoring loops, duplicates skipped
KeyIdPairs(match_keys, mp) ==
    Unique(Concat([i \in 1..Len(match_keys) |->
                     [j \in 1..Len(MapGet(mp, match_keys[i])) |->
                         <<match_keys[i], MapGet(mp, match_keys[i])[j]>>]]),
           <<>>)

\* rank.get(str(wid), {"score": 0, "common": False}) when the rank file is used
RankInfo(rk, dom, wid) ==
    IF dom = "words" /\ rk.exists /\ wid \in DOMAIN rk.table
    THEN rk.table[wid]
    ELSE [score |-> 0, common |-> FALSE]

\* mutant of CommonFlag: the common flag counts whatever common_first says
CommonFlagAlways(info, cf) == IF info.common THEN 1 ELSE 0

CommonFlag(info, cf) == IF cf /\ info.common THEN 1 ELSE 0

\* mutant of ScoreTuple: the rank table's common flag is added to the score
ScoreTupleCommonInScore(rk, dom, cf, qn, k, wid) ==
    LET info == RankInfo(rk, dom, wid)
    IN  << IF k = qn THEN 1 ELSE 0, CommonFlag(info, cf),
           info.score + (IF info.common THEN 1 ELSE 0), -Len(k), k, wid >>

\* the tuple appended to results for key k and id wid under variant qn
ScoreTuple(rk, dom, cf, qn, k, wid) ==
    LET info == RankInfo(rk, dom, wid)
    IN  << IF k = qn THEN 1 ELSE 0, CommonFlag(info, cf), info.score,
           -Len(k), k, wid >>

\* Python's tuple comparison t > u on results tuples
TupleGreater(t, u) ==
    LET diff == {i \in 1..6 : t[i] # u[i]}
    IN  /\ diff # {}
        /\ LET d == CHOOSE i \in diff : \A j \in diff : i <= j
           IN  IF d = 5 THEN StrLess(u[5], t[5]) ELSE t[d] > u[d]

\* one iteration of `for qn in q_variants`
ScanVariant(mf, sh, rk, dom, md, cap, cf, qn) ==
    LET bucket == detect_bucket(qn)
        base == SelectBase(mf[dom][md], bucket)
        keys == sh[base].keys
        mp == sh[base].map
        start == bisect_left(keys, qn)
        scan == ScanLoop(keys, qn, start, <<>>, cap)
        pairs == KeyIdPairs(scan.match_keys, mp)
    IN  [ qn |-> qn, bucket |-> bucket, base |-> base, start |-> start,
          stop |-> scan.stop, match_keys |-> scan.match_keys,
          results |-> [i \in 1..Len(pairs) |->
                         ScoreTuple(rk, dom, cf, qn, pairs[i][1], pairs[i][2])] ]

RECURSIVE BestByIdFirstWins(_, _)
\* mutant of BestById: the first tuple of an id is kept, never replaced
BestByIdFirstWins(results, best) ==
    IF results = <<>> THEN best
    ELSE LET t == Head(results)
             wid == t[6]
         IN  IF wid \notin DOMAIN best
             THEN BestByIdFirstWins(Tail(results), [w \in DOMAIN best \cup {wid} |->
                                                      IF w = wid THEN t ELSE best[w]])
             ELSE BestByIdFirstWins(Tail(results), best)

RECURSIVE BestById(_, _)
\* the deduplication loop: best_by_id after the tuples of `results`
BestById(results, best) ==
    IF results = <<>> THEN best
    ELSE LET t == Head(results)
             wid == t[6]
         IN  IF wid \notin DOMAIN best
             THEN BestById(Tail(results), [w \in DOMAIN best \cup {wid} |->
                                              IF w = wid THEN t ELSE best[w]])
             ELSE IF TupleGreater(t, best[wid])
                  THEN BestById(Tail(results), [best EXCEPT ![wid] = t])
                  ELSE BestById(Tail(results), best)

RECURSIVE SortedAsc(_)
\* mutant of SortedDesc: sorted(values) without reverse=True
SortedAsc(S) ==
    IF S = {} THEN <<>>
    ELSE LET m == CHOOSE t \in S : \A u \in S \ {t} : TupleGreater(u, t)
         IN  <<m>> \o SortedAsc(S \ {m})

RECURSIVE SortedDesc(_)
\* sorted(values, reverse=True) of pairwise distinct tuples
SortedDesc(S) ==
    IF S = {} THEN <<>>
    ELSE LET m == CHOOSE t \in S : \A u \in S \ {t} : TupleGreater(t, u)
         IN  <<m>> \o SortedDesc(S \ {m})

\* Python's seq[:n]
Truncate(seq, n) ==
    IF n >= 0 THEN SubSeq(seq, 1, Min(n, Len(seq)))
    ELSE SubSeq(seq, 1, IF Len(seq) + n > 0 THEN Len(seq) + n ELSE 0)

OutEntry(t) ==
    [ id |-> t[6], matched_key |-> t[5], score |-> t[3], common |-> t[2] = 1,
      exact |-> t[1] = 1, key_len |-> Len(t[5]) ]

\* the locals of the loop over the variants of q, one record per variant
Scans(mf, sh, rk, dom, md, q, cap, cf) ==
    LET q_variants == normalize_query_search_variants(q)
    IN  [i \in 1..Len(q_variants) |->
            ScanVariant(mf, sh, rk, dom, md, cap, cf, q_variants[i])]

AllResults(sc) == Concat([i \in 1..Len(sc) |-> sc[i].results])

\* mutant of Ranked: the slice keeps the last lim tuples, not the first
RankedKeepLast(sc, lim) ==
    LET best == BestById(AllResults(sc), <<>>)
        sorted == SortedDesc({best[w] : w \in DOMAIN best})
        final == SubSeq(sorted, IF Len(sorted) > lim THEN Len(sorted) - lim + 1 ELSE 1,
                        Len(sorted))
    IN  [i \in 1..Len(final) |-> OutEntry(final[i])]

\* the value search_prefix returns, from the loop's records
Ranked(sc, lim) ==
    LET best == BestById(AllResults(sc), <<>>)
        final == Truncate(SortedDesc({best[w] : w \in DOMAIN best}), lim)
    IN  [i \in 1..Len(final) |-> OutEntry(final[i])]

search_prefix(mf, sh, rk, dom, md, q, lim, cap, cf) ==
    Ranked(Scans(mf, sh, rk, dom, md, q, cap, cf), lim)

(***************************************************************************)
(* Cross-domain merge: cmd_search.                                         *)
(***************************************************************************)
\* domains = ["words","names"] if domain == "all" else [domain]
CmdDomains(d) == IF d = "all" THEN <<"words", "names">> ELSE <<d>>

\* modes = ["surface","reading"] if mode == "auto" else [mode]
CmdModes(m) == IF m = "auto" THEN <<"surface", "reading">> ELSE <<m>>

\* r["domain"] = d; r["mode"] = m
Tagged(r, d, m) ==
    [ id |-> r.id, matched_key |-> r.matched_key, score |-> r.score,
      common |-> r.common, exact |-> r.exact, key_len |-> r.key_len,
      domain |-> d, mode |-> m ]

\* the loops over domains and modes: the tagged entries of every search
Gathered(mf, sh, rk, d, m, q, lim, cap, cf) ==
    Concat([i \in 1..Len(CmdDomains(d)) |->
        Concat([j \in 1..Len(CmdModes(m)) |->
            LET res == search_prefix(mf, sh, rk, CmdDomains(d)[i], CmdModes(m)[j],
                                     q, lim, cap, cf)
            IN  [k \in 1..Len(res) |->
                    Tagged(res[k], CmdDomains(d)[i], CmdModes(m)[j])]])])

\* mutant of MergeTuple: the tuple without the preference for the surface mode
MergeTupleNoSurface(r, cf) ==
    << IF r.exact THEN 1 ELSE 0, IF cf /\ r.common THEN 1 ELSE 0, r.score,
       0, -r.key_len >>

\* t = (exact, common, score, prefer_surface, -key_len)
MergeTuple(r, cf) ==
    << IF r.exact THEN 1 ELSE 0, IF cf /\ r.common THEN 1 ELSE 0, r.score,
       IF r.mode = "surface" THEN 1 ELSE 0, -r.key_len >>

\* Python's t > u on merge tuples
MergeGreater(t, u) ==
    \E d \in 1..5 : t[d] > u[d] /\ \A i \in 1..(d - 1) : t[i] = u[i]

RECURSIVE DedupeLoop(_, _, _, _)
\* the loop over gathered: `keep` after it, and `order`, the keys of the dict
\* in insertion order
DedupeLoop(rs, order, keep, cf) ==
    IF rs = <<>> THEN [order |-> order, keep |-> keep]
    ELSE LET r == Head(rs)
             key == <<r.domain, r.id>>
         IN  IF key \notin DOMAIN keep
             THEN DedupeLoop(Tail(rs), Append(order, key),
                             [k \in DOMAIN keep \cup {key} |->
                                 IF k = key THEN r ELSE keep[k]], cf)
             ELSE IF MergeGreater(MergeTuple(r, cf), MergeTuple(keep[key], cf))
                  THEN DedupeLoop(Tail(rs), order, [keep EXCEPT ![key] = r], cf)
                  ELSE DedupeLoop(Tail(rs), order, keep, cf)

\* keep.values()
KeepValues(rs, cf) ==
    LET d == DedupeLoop(rs, <<>>, <<>>, cf)
    IN  [i \in 1..Len(d.order) |-> d.keep[d.order[i]]]

RECURSIVE SortedByTupleReversed(_, _, _)
\* mutant of SortedByTuple: an ascending stable sort, then reversed, which
\* reverses the order of the entries with equal tuples
SortedByTupleReversed(rs, acc, cf) ==
    IF rs = <<>> THEN acc
    ELSE LET r == Head(rs)
             n == Cardinality({i \in 1..Len(acc) :
                     MergeGreater(MergeTuple(acc[i], cf), MergeTuple(r, cf))})
         IN  SortedByTupleReversed(Tail(rs),
                 SubSeq(acc, 1, n) \o <<r>> \o SubSeq(acc, n + 1, Len(acc)), cf)

RECURSIVE SortedByTuple(_, _, _)
\* sorted(rs, key=merge tuple, reverse=True): stable, so an entry goes after
\* the entries before it whose tuple is not lower
SortedByTuple(rs, acc, cf) ==
    IF rs = <<>> THEN acc
    ELSE LET r == Head(rs)
             n == Cardinality({i \in 1..Len(acc) :
                     ~MergeGreater(MergeTuple(r, cf), MergeTuple(acc[i], cf))})
         IN  SortedByTuple(Tail(rs),
                 SubSeq(acc, 1, n) \o <<r>> \o SubSeq(acc, n + 1, Len(acc)), cf)

\* final = sorted(keep.values(), ...)[:args.limit]
Final(rs, lim, cf) == Truncate(SortedByTuple(KeepValues(rs, cf), <<>>, cf), lim)

\* mutant of OutputEntries: the output loop runs over the gathered entries
OutputEntriesGathered(gath, fin) == gath

\* the list the output loops run over: `for r in final`
OutputEntries(gath, fin) == fin

\* the card calls of one iteration of the output loop for entry r: the JSON
\* output asks for a card only with --details, the text output always; words
\* go to word_card, every other domain to name_card
CardCallsFor(r, sh) ==
    IF sh.format = "json" /\ ~sh.details THEN <<>>
    ELSE << [ fn |-> IF r.domain = "words" THEN "word_card" ELSE "name_card",
              id |-> r.id ] >>

(***************************************************************************)
(* Entry assembler: word_card and name_card. A dict is a function; a card  *)
(* is a record that says which keys the returned dict has. The fields of   *)
(* the canonical records that a card copies unchanged are stood for by     *)
(* "primary".                                                              *)
(***************************************************************************)
\* the call left by an exception of load_json_any or iter_jsonl_gz
Raise(exc) == [NoCard EXCEPT !.done = TRUE, !.raised = TRUE, !.exc = exc]

\* {"id": id, "error": msg}
ErrorCard(id, msg) ==
    [NoCard EXCEPT !.done = TRUE, !.keys = {"id", "error"}, !.id = id, !.error = msg]

\* find_word_chunk_for_id: the position of the first listed chunk whose range
\* holds wid, 0 for None
find_word_chunk_for_id(rp, wid) ==
    LET hits == {i \in 1..Len(rp.word_chunks) :
                    rp.word_chunks[i].a <= wid /\ wid <= rp.word_chunks[i].b}
    IN  IF hits = {} THEN 0 ELSE CHOOSE i \in hits : \A j \in hits : i <= j

\* load_word_lang_chunk(repo, "en", a, b): {} when the file is not on disk
LoadWordLangEn(rp, a, b) ==
    IF <<a, b>> \in DOMAIN rp.en_words /\ rp.en_words[<<a, b>>].exists
    THEN rp.en_words[<<a, b>>].entries
    ELSE <<>>

\* the files listed in the Italian meta file whose range meets [a, b]
ItOverlapping(rp, a, b) ==
    {i \in 1..Len(rp.it_files) :
        ~(rp.it_files[i].b < a \/ rp.it_files[i].a > b)}

RECURSIVE ItEntries(_, _, _)
\* the entries of the files at positions i.. among those of set S, a later
\* file overwriting an earlier one
ItEntries(rp, S, i) ==
    IF i > Len(rp.it_files) THEN <<>>
    ELSE LET rest == ItEntries(rp, S, i + 1)
             mine == IF i \in S THEN rp.it_files[i].entries ELSE <<>>
         IN  [w \in DOMAIN mine \cup DOMAIN rest |->
                 IF w \in DOMAIN rest THEN rest[w] ELSE mine[w]]

\* load_word_lang_chunk(repo, "it", a, b): no entries without the meta file;
\* a listed file is opened without a test that it exists
LoadWordLangIt(rp, a, b) ==
    IF ~rp.it_meta_exists THEN [raised |-> FALSE, entries |-> <<>>]
    ELSE IF \E i \in ItOverlapping(rp, a, b) : ~rp.it_files[i].exists
    THEN [raised |-> TRUE, entries |-> <<>>]
    ELSE [raised |-> FALSE, entries |-> ItEntries(rp, ItOverlapping(rp, a, b), 1)]

\* {s["id"]: s for s in senses}.get(sid, {}).get("gloss", []): the gloss of
\* the last sense of the list with that id
GlossBySenseId(senses, sid) ==
    LET hits == {i \in 1..Len(senses) : senses[i].id = sid}
    IN  IF hits = {} THEN <<>>
        ELSE senses[CHOOSE i \in hits : \A j \in hits : i >= j].gloss

\* the senses of a language entry, none for the missing entry {}
LangSenses(entries, wid) ==
    IF wid \in DOMAIN entries THEN entries[wid].senses ELSE <<>>

\* the loop over core["senses"]
MergeSenses(core, en_senses, it_senses) ==
    [i \in 1..Len(core.senses) |->
        [ id |-> core.senses[i].id,
          gloss_en |-> GlossBySenseId(en_senses, core.senses[i].id),
          gloss_it |-> GlossBySenseId(it_senses, core.senses[i].id) ]]

word_card(rp, wid, lang_pref) ==
    LET c == find_word_chunk_for_id(rp, wid)
    IN  IF c = 0 THEN ErrorCard(wid, "word id out of range")
        ELSE LET chunk == rp.word_chunks[c]
             IN  IF wid \notin DOMAIN chunk.entries
                 THEN ErrorCard(wid, "word not found in chunk")
                 ELSE LET core == chunk.entries[wid]
                          en == LoadWordLangEn(rp, chunk.a, chunk.b)
                          it == IF lang_pref = "it"
                                THEN LoadWordLangIt(rp, chunk.a, chunk.b)
                                ELSE [raised |-> FALSE, entries |-> <<>>]
                      IN  IF it.raised THEN Raise("FileNotFoundError")
                          ELSE [NoCard EXCEPT
                                  !.done = TRUE,
                                  !.keys = {"id", "primary", "forms", "priority",
                                            "education", "senses", "kanji"},
                                  !.id = wid,
                                  !.primary = core.primary,
                                  !.senses = MergeSenses(core, LangSenses(en, wid),
                                                         LangSenses(it.entries, wid))]

\* find_name_chunk: the position of the first chunk of the names meta whose
\* range holds nid, 0 for None
find_name_chunk(rp, nid) ==
    LET hits == {i \in 1..Len(rp.names_meta) :
                    rp.names_meta[i].start_id <= nid /\ nid <= rp.names_meta[i].end_id}
    IN  IF hits = {} THEN 0 ELSE CHOOSE i \in hits : \A j \in hits : i <= j

name_card(rp, nid) ==
    LET c == find_name_chunk(rp, nid)
    IN  IF c = 0 THEN ErrorCard(nid, "name id out of range")
        ELSE LET ch == rp.names_meta[c]
                 core_file == rp.names_files[ch.core_file]
                 en_file == rp.names_files[ch.lang_en_file]
             IN  IF ~core_file.exists \/ ~en_file.exists
                 THEN Raise("FileNotFoundError")
                 ELSE [NoCard EXCEPT
                         !.done = TRUE,
                         !.keys = {"id", "primary", "forms", "types", "translations_en"},
                         !.id = nid,
                         !.primary = IF nid \in DOMAIN core_file.entries
                                     THEN core_file.entries[nid].primary
                                     ELSE "None",
                         !.translations_en =
                             IF nid \in DOMAIN en_file.entries
                             THEN en_file.entries[nid].translations
                             ELSE <<>>]

(***************************************************************************)
(* Inputs. Keys and queries, written as code-point sequences.              *)
(***************************************************************************)
Domains == {"words", "names"}
Modes == {"surface", "reading"}

ShardH == <<"index", "hiragana">>
ShardH2 == <<"extra", "hiragana">>
ShardL == <<"index", "latin">>
ShardO == <<"index", "other">>
ShardNames == {ShardH, ShardH2, ShardL, ShardO}

\* the ids the key -> ids maps list under the keys an index may hold
PoolMap ==
    ( <<CP.HiraA>> :> <<1>> ) @@
    ( <<CP.HiraA, CP.HiraA>> :> <<2, 1>> ) @@
    ( <<CP.HiraA, CP.Fulla>> :> <<3>> ) @@
    ( <<CP.FullA>> :> <<2>> ) @@
    ( <<CP.Fulla>> :> <<1, 3>> ) @@
    ( <<CP.Fulla, CP.Fulla>> :> <<2>> ) @@
    ( <<CP.KataVa>> :> <<1>> ) @@
    ( <<CP.HiraWa, CP.Dakuten>> :> <<2>> ) @@
    ( <<CP.Kanji>> :> <<3>> ) @@
    ( <<CP.Fulls, CP.Fulls>> :> <<1>> ) @@
    ( <<CP.SharpS>> :> <<2>> )

ScanPool == { <<CP.HiraA>>, <<CP.HiraA, CP.HiraA>>, <<CP.HiraA, CP.Fulla>>,
              <<CP.FullA>>, <<CP.Fulla>>, <<CP.Fulla, CP.Fulla>> }

\* <<CP.FullA, CP.Fulla>> is a key without an entry in the map
FullPool == ScanPool \cup DOMAIN PoolMap \cup { <<CP.FullA, CP.Fulla>> }

RECURSIVE SortedKeys(_)
\* a key array: the keys of S, strictly increasing in code-point order
SortedKeys(S) ==
    IF S = {} THEN <<>>
    ELSE LET m == CHOOSE k \in S : \A u \in S \ {k} : StrLess(k, u)
         IN  <<m>> \o SortedKeys(S \ {m})

\* a shard holding the keys of S
ShardOf(S) ==
    [ keys |-> SortedKeys(S),
      map |-> [k \in S \cap DOMAIN PoolMap |-> PoolMap[k]] ]

\* the standard index: every key in the shard tagged with its bucket, the
\* keys of untagged buckets in the last-listed shard; the extra hiragana shard
\* holds the whole pool
StdBases == <<ShardH, ShardL, ShardO>>

StdShards ==
    [ n \in ShardNames |->
        IF n = ShardH2 THEN ShardOf(FullPool)
        ELSE ShardOf({k \in FullPool : SelectBase(StdBases, detect_bucket(k)) = n}) ]

StdManifest == [d \in Domains |-> [m \in Modes |-> StdBases]]

\* the rank table of the spec's ranking example: a common id with the lower
\* score, a not-common id with the higher score, the other ids absent
StdRank ==
    [ exists |-> TRUE,
      table |-> (2 :> [score |-> 0, common |-> TRUE]) @@
                (3 :> [score |-> 1, common |-> FALSE]) ]

\* no rank file on disk
NoRank == [exists |-> FALSE, table |-> <<>>]

QueryAlphabet == {CP.A, CP.SharpS, CP.KataA, CP.KataWa, CP.Dakuten, CP.Kanji}

Queries == StringsUpTo(QueryAlphabet, MaxQueryLen)

FewQueries == { <<>>, <<CP.KataA>>, <<CP.KataA, CP.KataA>>, <<CP.A>>,
                <<CP.KataA, CP.A>>, <<CP.A, CP.A>> }

RankedIds == {2, 3}

RankTables ==
    {NoRank} \cup
    { [exists |-> TRUE, table |-> t] :
        t \in UNION { [ids -> [score : 0..MaxScore, common : BOOLEAN]] :
                        ids \in SUBSET RankedIds } }

BasesLists == UNION { [1..n -> ShardNames] : n \in 1..MaxBases }

(***************************************************************************)
(* The state machine: a process that calls search_prefix once.             *)
(***************************************************************************)
\* The initial states are four families of calls; each varies one part of the
\* input over all its values within the bounds.

\* every key array over the scan pool, in the last-listed shard of a one-shard list
InitScan ==
    /\ manifest = [d \in Domains |-> [m \in Modes |-> <<ShardO>>]]
    /\ \E S \in SUBSET ScanPool : shards = [StdShards EXCEPT ![ShardO] = ShardOf(S)]
    /\ rank = StdRank
    /\ query \in FewQueries
    /\ domain \in Domains
    /\ mode = "surface"
    /\ limit \in 0..MaxLimit
    /\ max_keys \in 0..MaxCap
    /\ common_first \in BOOLEAN

\* every query, on the standard index
InitNorm ==
    /\ manifest = StdManifest
    /\ shards = StdShards
    /\ rank = StdRank
    /\ query \in Queries
    /\ domain \in Domains
    /\ mode = "surface"
    /\ limit \in 0..MaxLimit
    /\ max_keys \in 0..MaxCap
    /\ common_first \in BOOLEAN

\* every rank table, on the standard index
InitRank ==
    /\ manifest = StdManifest
    /\ shards = StdShards
    /\ rank \in RankTables
    /\ query \in {<<CP.KataA>>, <<CP.A>>, <<CP.KataA, CP.A>>}
    /\ domain \in Domains
    /\ mode = "surface"
    /\ limit \in 0..MaxLimit
    /\ max_keys = MaxCap
    /\ common_first \in BOOLEAN

\* every shard list for (words, surface), the standard one elsewhere
InitManifest ==
    /\ \E bases \in BasesLists :
          manifest = [StdManifest EXCEPT !["words"]["surface"] = bases]
    /\ shards = StdShards
    /\ rank = StdRank
    /\ query \in FewQueries \cup {<<CP.SharpS>>, <<CP.Kanji>>}
    /\ domain \in Domains
    /\ mode \in Modes
    /\ limit = MaxLimit
    /\ max_keys = MaxCap
    /\ common_first = FALSE

Init ==
    /\ pc = "ready"
    /\ scans = <<>>
    /\ out = <<>>
    /\ (InitScan \/ InitNorm \/ InitRank \/ InitManifest)
    /\ NormIdle
    /\ CmdIdle
    /\ CardIdle
    /\ StoreIdle
    /\ ToolIdle

\* search_prefix(repo, domain, mode, query, limit, max_keys, common_first)
SearchPrefix ==
    /\ pc = "ready"
    /\ manifest[domain][mode] # <<>>
    /\ scans' = Scans(manifest, shards, rank, domain, mode, query, max_keys, common_first)
    /\ out' = Ranked(scans', limit)
    /\ pc' = "done"
    /\ UNCHANGED <<manifest, shards, rank, domain, mode, query, limit, max_keys,
                   common_first>>
    /\ UNCHANGED <<normVars, cmdVars, cardVars, storeVars, toolVars>>

Next == SearchPrefix

Spec == Init /\ [][Next]_vars

(***************************************************************************)
(* The state machine of the normalizer and the classifier: a process that  *)
(* calls one of their functions on a string, and a string -> string        *)
(* function once more on the value it returned.                            *)
(***************************************************************************)
TextAlphabet ==
    { CP.NL, CP.A, CP.SharpS, CP.Acute, CP.Dakuten, CP.HiraA, CP.KataA,
      CP.KataWa, CP.Choon, CP.Kanji, CP.FullA }

Texts == StringsUpTo(TextAlphabet, MaxTextLen)

StringFunctions == {"normalize_base", "kata_to_hira", "normalize_query_search"}

NormFunctions ==
    StringFunctions \cup
    {"normalize_query_search_variants", "normalize_query_lookup_candidates",
     "detect_bucket"}

\* the search engine at rest
SearchIdle ==
    /\ manifest = StdManifest
    /\ shards = StdShards
    /\ rank = StdRank
    /\ domain = "words"
    /\ mode = "surface"
    /\ query = <<>>
    /\ limit = 0
    /\ max_keys = 0
    /\ common_first = FALSE
    /\ pc = "idle"
    /\ scans = <<>>
    /\ out = <<>>

NormInit ==
    /\ SearchIdle
    /\ CmdIdle
    /\ CardIdle
    /\ StoreIdle
    /\ ToolIdle
    /\ text \in Texts
    /\ fn \in NormFunctions
    /\ vals = <<>>

\* the argument of the next call: the text, then the value returned last
NextArg == IF vals = <<>> THEN text ELSE vals[Len(vals)]

NormalizeBase ==
    /\ fn = "normalize_base"
    /\ Len(vals) < 2
    /\ vals' = Append(vals, normalize_base(NextArg))
    /\ UNCHANGED <<searchVars, cmdVars, cardVars, storeVars, toolVars, text, fn>>

KataToHira ==
    /\ fn = "kata_to_hira"
    /\ Len(vals) < 2
    /\ vals' = Append(vals, kata_to_hira(NextArg))
    /\ UNCHANGED <<searchVars, cmdVars, cardVars, storeVars, toolVars, text, fn>>

NormalizeQuerySearch ==
    /\ fn = "normalize_query_search"
    /\ Len(vals) < 2
    /\ vals' = Append(vals, normalize_query_search(NextArg))
    /\ UNCHANGED <<searchVars, cmdVars, cardVars, storeVars, toolVars, text, fn>>

NormalizeQuerySearchVariants ==
    /\ fn = "normalize_query_search_variants"
    /\ vals = <<>>
    /\ vals' = <<normalize_query_search_variants(text)>>
    /\ UNCHANGED <<searchVars, cmdVars, cardVars, storeVars, toolVars, text, fn>>

NormalizeQueryLookupCandidates ==
    /\ fn = "normalize_query_lookup_candidates"
    /\ vals = <<>>
    /\ vals' = <<normalize_query_lookup_candidates(text)>>
    /\ UNCHANGED <<searchVars, cmdVars, cardVars, storeVars, toolVars, text, fn>>

DetectBucket ==
    /\ fn = "detect_bucket"
    /\ vals = <<>>
    /\ vals' = <<detect_bucket(text)>>
    /\ UNCHANGED <<searchVars, cmdVars, cardVars, storeVars, toolVars, text, fn>>

NormNext ==
    \/ NormalizeBase
    \/ KataToHira
    \/ NormalizeQuerySearch
    \/ NormalizeQuerySearchVariants
    \/ NormalizeQueryLookupCandidates
    \/ DetectBucket

NormSpec == NormInit /\ [][NormNext]_vars

(***************************************************************************)
(* The state machine of cmd_search: one shard per (domain, mode), holding  *)
(* one of a few key -> ids maps.                                           *)
(***************************************************************************)
CmdShard(d, m) == <<d, m>>

CmdManifest == [d \in Domains |-> [m \in Modes |-> <<CmdShard(d, m)>>]]

KeyA == <<CP.HiraA>>
KeyAA == <<CP.HiraA, CP.HiraA>>
KeyAAA == <<CP.HiraA, CP.HiraA, CP.HiraA>>

\* a shard holding the keys and id lists of map mp
ShardOfMap(mp) == [keys |-> SortedKeys(DOMAIN mp), map |-> mp]

WordMaps ==
    { (KeyA :> <<1>>) @@ (KeyAA :> <<2>>),
      (KeyAA :> <<1>>) @@ (KeyAAA :> <<2, 3>>),
      (KeyAAA :> <<1>>),
      (KeyA :> <<3>>) @@ (KeyAA :> <<3, 1>>),
      (KeyA :> <<1, 2>>) }

NameMaps ==
    { (KeyA :> <<1>>) @@ (KeyAAA :> <<2>>),
      (KeyAA :> <<1, 2>>) }

CmdQueries == { <<CP.KataA>>, <<CP.KataA, CP.KataA>> }

\* --format and --details
ShowOptions ==
    { [format |-> "text", details |-> FALSE],
      [format |-> "json", details |-> FALSE],
      [format |-> "json", details |-> TRUE] }

CmdInit ==
    /\ manifest = CmdManifest
    /\ \E ws, wr \in WordMaps, ns, nr \in NameMaps :
          shards = (CmdShard("words", "surface") :> ShardOfMap(ws)) @@
                   (CmdShard("words", "reading") :> ShardOfMap(wr)) @@
                   (CmdShard("names", "surface") :> ShardOfMap(ns)) @@
                   (CmdShard("names", "reading") :> ShardOfMap(nr))
    /\ rank = StdRank
    /\ domain \in Domains \cup {"all"}
    /\ mode \in Modes \cup {"auto"}
    /\ query \in CmdQueries
    /\ limit \in 0..MaxLimit
    /\ max_keys = MaxCap
    /\ common_first \in BOOLEAN
    /\ pc = "ready"
    /\ scans = <<>>
    /\ out = <<>>
    /\ NormIdle
    /\ gathered = <<>> /\ cmd_final = <<>>
    /\ show \in ShowOptions
    /\ shown = 0 /\ card_calls = <<>>
    /\ CardIdle
    /\ StoreIdle
    /\ ToolIdle

\* cmd_search(args), up to the list it prints
CmdSearch ==
    /\ pc = "ready"
    /\ gathered' = Gathered(manifest, shards, rank, domain, mode, query, limit,
                            max_keys, common_first)
    /\ cmd_final' = Final(gathered', limit, common_first)
    /\ pc' = "done"
    /\ UNCHANGED <<manifest, shards, rank, domain, mode, query, limit, max_keys,
                   common_first, scans, out, show, shown, card_calls, normVars,
                   cardVars, storeVars, toolVars>>

\* cmd_search(args), one iteration of its output loop: `for r in final` of the
\* JSON output or of the text output, with the card call the iteration makes
CmdShowEntry ==
    /\ pc = "done"
    /\ shown < Len(OutputEntries(gathered, cmd_final))
    /\ shown' = shown + 1
    /\ card_calls' = card_calls \o
                        CardCallsFor(OutputEntries(gathered, cmd_final)[shown'], show)
    /\ UNCHANGED <<searchVars, gathered, cmd_final, show, normVars, cardVars,
                   storeVars, toolVars>>

CmdNext == CmdSearch \/ CmdShowEntry

CmdSpec == CmdInit /\ [][CmdNext]_vars

(***************************************************************************)
(* The state machine of the entry assembler: a process that asks for one   *)
(* card. Two word chunks, words_1_2 (holding id 1) and words_4_5 (holding  *)
(* ids 4 and 5), and one names chunk for ids 1..2 (holding id 1); the      *)
(* language files vary in presence and content.                            *)
(***************************************************************************)
Sense(sid, g) == [id |-> sid, gloss |-> <<g>>]

WordChunks ==
    << [ a |-> 1, b |-> 2,
         entries |-> (1 :> [primary |-> "w1", senses |-> <<[id |-> 1], [id |-> 2]>>]) ],
       [ a |-> 4, b |-> 5,
         entries |-> (4 :> [primary |-> "w4", senses |-> <<[id |-> 2], [id |-> 1]>>]) @@
                     (5 :> [primary |-> "w5", senses |-> <<>>]) ] >>

\* the contents an en_words_1_2 file may have: a gloss for sense 1 only;
\* glosses for sense 2 (twice) and a sense 3 the canonical record lacks; no
\* entry for id 1
EnEntries ==
    { (1 :> [senses |-> <<Sense(1, "en1")>>]),
      (1 :> [senses |-> <<Sense(2, "en2"), Sense(3, "en3"), Sense(2, "en2b")>>]),
      (2 :> [senses |-> <<Sense(1, "en1")>>]) }

En45 == (4 :> [senses |-> <<Sense(1, "en1"), Sense(2, "en2")>>])

\* the contents an it_words_1_2 file may have
ItEntriesOptions ==
    { (1 :> [senses |-> <<Sense(1, "it1"), Sense(2, "it2")>>]),
      (1 :> [senses |-> <<Sense(3, "it3")>>]) }

It45 == (4 :> [senses |-> <<Sense(2, "it2")>>])

NamesMeta ==
    << [start_id |-> 1, end_id |-> 2, core_file |-> "names_core_1_2",
        lang_en_file |-> "names_en_1_2"] >>

NamesCore == (1 :> [primary |-> "n1"])

NamesEnOptions == { (1 :> [translations |-> <<"t1">>]), <<>> }

CardFunctions == {"word_card", "name_card"}

Langs == {"it", "en"}

CardInit ==
    /\ SearchIdle
    /\ NormIdle
    /\ CmdIdle
    /\ StoreIdle
    /\ ToolIdle
    /\ \E en_missing, it_meta_missing, it12_missing, it45_missing,
          names_en_missing \in BOOLEAN,
          en \in EnEntries, it \in ItEntriesOptions, names_en \in NamesEnOptions :
          repo = [ word_chunks |-> WordChunks,
                   en_words |-> (<<1, 2>> :> [exists |-> ~en_missing, entries |-> en]) @@
                                (<<4, 5>> :> [exists |-> TRUE, entries |-> En45]),
                   it_meta_exists |-> ~it_meta_missing,
                   it_files |-> << [a |-> 1, b |-> 2, exists |-> ~it12_missing,
                                    entries |-> it],
                                   [a |-> 4, b |-> 5, exists |-> ~it45_missing,
                                    entries |-> It45] >>,
                   names_meta |-> NamesMeta,
                   names_files |->
                       ("names_core_1_2" :> [exists |-> TRUE, entries |-> NamesCore]) @@
                       ("names_en_1_2" :> [exists |-> ~names_en_missing,
                                           entries |-> names_en]) ]
    /\ call \in [fn : CardFunctions, id : 1..MaxCardId, lang_pref : Langs]
    /\ card = NoCard

\* word_card(repo, wid, lang_pref)
WordCard ==
    /\ call.fn = "word_card"
    /\ ~card.done
    /\ card' = word_card(repo, call.id, call.lang_pref)
    /\ UNCHANGED <<searchVars, normVars, cmdVars, storeVars, toolVars, repo, call>>

\* name_card(repo, nid)
NameCard ==
    /\ call.fn = "name_card"
    /\ ~card.done
    /\ card' = name_card(repo, call.id)
    /\ UNCHANGED <<searchVars, normVars, cmdVars, storeVars, toolVars, repo, call>>

CardNext == WordCard \/ NameCard

CardSpec == CardInit /\ [][CardNext]_vars

(***************************************************************************)
(* Index store: the JSON files of the dataset, each possibly present as    *)
(* .json, as .json.gz or as both, and the loaders that read them, most of  *)
(* them behind functools.lru_cache. A file holds the payload of its        *)
(* resource ("ok") or is malformed ("bad"). A value read is the list of    *)
(* the resources whose payloads it was built from.                         *)
(***************************************************************************)
\* a logical resource: a file of its own, or the key array ("keys") and the
\* key -> ids map ("idx") of the shard `base`
Res(kind) == [kind |-> kind, base |-> <<>>]

ShardRes(kind, base) == [kind |-> kind, base |-> base]

\* the path of resource r ending in .json and the one ending in .json.gz
Plain(r) == [res |-> r, gz |-> FALSE]

Gz(r) == [res |-> r, gz |-> TRUE]

NonePath == [res |-> Res("None"), gz |-> FALSE]

FileState(d, path) ==
    IF path.res \in DOMAIN d
    THEN (IF path.gz THEN d[path.res].gz ELSE d[path.res].plain)
    ELSE "absent"

\* Path.exists()
PathExists(d, path) == FileState(d, path) # "absent"

resolve_json_variant(d, path) ==
    IF PathExists(d, path) THEN path
    ELSE IF ~path.gz /\ PathExists(d, Gz(path.res)) THEN Gz(path.res)
    ELSE IF path.gz /\ PathExists(d, Plain(path.res)) THEN Plain(path.res)
    ELSE NonePath

\* Python's `p or q` on an Optional[Path]
OrPath(p, q) == IF p = NonePath THEN q ELSE p

\* resolve_json_variant(p) or p, for the .json path of resource r
Resolved(d, r) == OrPath(resolve_json_variant(d, Plain(r)), Plain(r))

\* what a read or a loader gives: an exception or a value, the files it
\* opened or tried to open, and the loader in whose body the exception arose,
\* with the key it was called with
Returned0(value, opened) ==
    [ raised |-> FALSE, exc |-> "", failed |-> "", failed_key |-> <<>>,
      value |-> value, opened |-> opened ]

Raised0(exc, opened) ==
    [ raised |-> TRUE, exc |-> exc, failed |-> "", failed_key |-> <<>>,
      value |-> <<>>, opened |-> opened ]

\* json.load of the file at path, opened with gzip.open when the name ends in
\* .json.gz and with open otherwise
load_json_any(d, path) ==
    CASE FileState(d, path) = "absent" -> Raised0("FileNotFoundError", <<path>>)
      [] FileState(d, path) = "bad" -> Raised0("JSONDecodeError", <<path>>)
      [] OTHER -> Returned0(<<path.res>>, <<path>>)

\* two reads one after the other: the second is not made when the first raises
Then(a, b) ==
    IF a.raised THEN a
    ELSE IF b.raised THEN [b EXCEPT !.opened = a.opened \o @]
    ELSE Returned0(a.value \o b.value, a.opened \o b.opened)

\* a result together with the caches it leaves
WithCache(r, c) ==
    [ raised |-> r.raised, exc |-> r.exc, failed |-> r.failed,
      failed_key |-> r.failed_key, value |-> r.value, opened |-> r.opened, cache |-> c ]

\* @lru_cache(maxsize=...)
LRU == [ load_search_index |-> 32, list_word_chunks |-> 1, load_word_chunk |-> 4,
         load_word_lang_chunk |-> 4, list_it_word_chunks |-> 1, load_kanji |-> 1,
         load_names_meta |-> 1, load_names_chunk |-> 6,
         load_categories_manifest |-> 1 ]

NoCache == [l \in DOMAIN LRU |-> <<>>]

CacheHas(entries, k) == \E i \in 1..Len(entries) : entries[i].key = k

CacheGet(entries, k) ==
    entries[CHOOSE i \in 1..Len(entries) : entries[i].key = k].value

\* a hit makes the entry the most recently used one
Touch(entries, k) ==
    LET i == CHOOSE j \in 1..Len(entries) : entries[j].key = k
    IN  SubSeq(entries, 1, i - 1) \o SubSeq(entries, i + 1, Len(entries)) \o <<entries[i]>>

\* a miss stores the value and, when the cache is full, drops the least
\* recently used entry
Store(entries, k, v, maxsize) ==
    LET added == Append(entries, [key |-> k, value |-> v])
    IN  IF Len(added) > maxsize THEN Tail(added) ELSE added

\* mutant of Cached: what the body had read when it raised is stored
CachedStoresFailure(c, loader, k, body) ==
    IF CacheHas(c[loader], k)
    THEN WithCache(Returned0(CacheGet(c[loader], k), <<>>),
                   [c EXCEPT ![loader] = Touch(@, k)])
    ELSE [body EXCEPT !.failed = IF body.raised /\ @ = "" THEN loader ELSE @,
                      !.failed_key = IF body.raised /\ body.failed = "" THEN k ELSE @,
                      !.cache = [@ EXCEPT ![loader] =
                                    Store(@, k, body.value, LRU[loader])]]

\* a call of a loader wrapped by lru_cache with key k; body is what the
\* loader's body gives, with the caches its own calls leave. An exception
\* passes through the wrapper, which stores nothing then.
Cached(c, loader, k, body) ==
    IF CacheHas(c[loader], k)
    THEN WithCache(Returned0(CacheGet(c[loader], k), <<>>),
                   [c EXCEPT ![loader] = Touch(@, k)])
    ELSE IF body.raised
    THEN [body EXCEPT !.failed = IF @ = "" THEN loader ELSE @,
                      !.failed_key = IF body.failed = "" THEN k ELSE @]
    ELSE [body EXCEPT !.cache = [@ EXCEPT ![loader] =
                                    Store(@, k, body.value, LRU[loader])]]

\* load_search_index(repo, base): the map file, then the key array
load_search_index(d, c, base) ==
    Cached(c, "load_search_index", base,
           WithCache(Then(load_json_any(d, Resolved(d, ShardRes("idx", base))),
                          load_json_any(d, Resolved(d, ShardRes("keys", base)))), c))

\* the files search_prefix reads for a query with one variant: the manifest,
\* the rank table of the words domain when it exists, and the shard the
\* manifest lists for (domain, mode)
SearchPrefixFiles(d, c, dom, md) ==
    LET manifest_read == load_json_any(d, Plain(Res("manifest")))
        rank_path == Resolved(d, Res("rank"))
        rank_read == IF dom = "words" /\ PathExists(d, rank_path)
                     THEN load_json_any(d, rank_path)
                     ELSE Returned0(<<>>, <<>>)
        before == Then(manifest_read, rank_read)
        index == load_search_index(d, c, <<dom, md>>)
    IN  IF before.raised THEN WithCache([before EXCEPT !.failed = "search_prefix"], c)
        ELSE WithCache(Then(before, index), index.cache)

\* list_word_chunks(repo): the files of data/seed/core named words_a_b.json
\* or words_a_b.json.gz, sorted
list_word_chunks(d, c) ==
    Cached(c, "list_word_chunks", <<>>,
           WithCache(Returned0(
               (IF PathExists(d, Plain(Res("word_chunk")))
                THEN <<Plain(Res("word_chunk"))>> ELSE <<>>) \o
               (IF PathExists(d, Gz(Res("word_chunk")))
                THEN <<Gz(Res("word_chunk"))>> ELSE <<>>), <<>>), c))

load_word_chunk(d, c, chunk_path) ==
    Cached(c, "load_word_chunk", chunk_path, WithCache(load_json_any(d, chunk_path), c))

\* the canonical chunk word_card loads for an id of the chunk's range: the
\* first listed chunk covering the id; none gives the "out of range" card
WordChunkFiles(d, c) ==
    LET chunks == list_word_chunks(d, c)
    IN  IF chunks.value = <<>> THEN WithCache(Returned0(<<>>, <<>>), chunks.cache)
        ELSE load_word_chunk(d, chunks.cache, chunks.value[1])

\* list_it_word_chunks(repo): no chunk when data/lang/it_common/meta.json is
\* not there; else the chunks the meta file lists, which is read by its plain
\* path. The value is the payload read; the list it gives is ItChunks.
list_it_word_chunks(d, c) ==
    Cached(c, "list_it_word_chunks", <<>>,
           WithCache(IF PathExists(d, Plain(Res("it_meta")))
                     THEN load_json_any(d, Plain(Res("it_meta")))
                     ELSE Returned0(<<>>, <<>>), c))

\* the id range of the chunk files of the model: words_1_2, en_words_1_2 and
\* it_words_1_2
ChunkRange == <<1, 2>>

\* the chunk list a well-formed meta file gives: its one file, with the range
\* parse_it_word_range reads from its name
ItChunks == << [a |-> ChunkRange[1], b |-> ChunkRange[2], path |-> Plain(Res("it_chunk"))] >>

\* load_word_lang_chunk(repo, lang, range_start, range_end), for lang "en"
\* and "it". English: the file en_words_<start>_<end> of data/seed/lang in
\* either encoding, {} when it is not there. Italian: every chunk of
\* list_it_word_chunks that overlaps the range, opened by the path the meta
\* file names.
load_word_lang_chunk(d, c, lang, range_start, range_end) ==
    LET en_path == IF <<range_start, range_end>> = ChunkRange
                   THEN Resolved(d, Res("en_chunk"))
                   ELSE Plain(ShardRes("en_chunk", <<range_start, range_end>>))
        chunks == list_it_word_chunks(d, c)
        listed == IF chunks.value = <<>> THEN <<>> ELSE ItChunks
        overlapping == SelectSeq(listed, LAMBDA ch : ~(ch.b < range_start \/ ch.a > range_end))
        entries == IF overlapping = <<>> THEN Returned0(<<>>, <<>>)
                   ELSE load_json_any(d, overlapping[1].path)
    IN  Cached(c, "load_word_lang_chunk", <<lang, range_start, range_end>>,
               IF lang = "en"
               THEN WithCache(IF PathExists(d, en_path) THEN load_json_any(d, en_path)
                              ELSE Returned0(<<>>, <<>>), c)
               ELSE IF chunks.raised THEN chunks
               ELSE WithCache([entries EXCEPT !.opened = chunks.opened \o @], chunks.cache))

load_kanji(d, c) ==
    Cached(c, "load_kanji", <<>>, WithCache(load_json_any(d, Resolved(d, Res("kanji"))), c))

load_names_meta(d, c) ==
    Cached(c, "load_names_meta", <<>>,
           WithCache(load_json_any(d, Plain(Res("names_meta"))), c))

\* load_names_chunk(repo, core_file): the lines of the .jsonl.gz file
load_names_chunk(d, c) ==
    Cached(c, "load_names_chunk", <<"names_chunk">>,
           WithCache(load_json_any(d, Gz(Res("names_chunk"))), c))

load_categories_manifest(d, c) ==
    Cached(c, "load_categories_manifest", <<>>,
           WithCache(load_json_any(d, Plain(Res("categories"))), c))

(***************************************************************************)
(* The state machine of the index store: a process that calls loaders on   *)
(* one repository, whose files do not change.                              *)
(***************************************************************************)
FileStates == {"absent", "ok", "bad"}

SingleKinds == { "manifest", "rank", "word_chunk", "en_chunk", "it_meta", "it_chunk", "kanji",
                 "names_meta", "names_chunk", "categories" }

Resources ==
    {Res(k) : k \in SingleKinds} \cup
    {ShardRes(k, <<dm, md>>) : k \in {"idx", "keys"}, dm \in Domains, md \in Modes}

\* every resource as a .json file only; the names chunk, a .jsonl.gz file
DefaultDisk ==
    [ r \in Resources |->
        IF r = Res("names_chunk") THEN [plain |-> "absent", gz |-> "ok"]
        ELSE [plain |-> "ok", gz |-> "absent"] ]

\* the resources whose files vary
Varied ==
    {Res(k) : k \in SingleKinds} \cup
    {ShardRes(k, <<"words", "surface">>) : k \in {"idx", "keys"}}

StoreInit ==
    /\ \E r \in Varied, p, g \in FileStates :
          disk = [DefaultDisk EXCEPT ![r] = [plain |-> p, gz |-> g]]
    /\ cache = NoCache
    /\ calls = <<>>
    /\ SearchIdle
    /\ NormIdle
    /\ CmdIdle
    /\ CardIdle
    /\ ToolIdle

\* the ranges load_word_lang_chunk is called with: the chunk range and ranges
\* that overlap no chunk, of which a call takes one used before or the next
LangRanges(log) ==
    LET fresh(i) == <<10 + i, 10 + i>>
        used == { <<log[j].key[2], log[j].key[3]>> :
                    j \in { n \in 1..Len(log) : log[n].op = "load_word_lang_chunk" } }
    IN  {ChunkRange} \cup
        { fresh(i) : i \in { n \in 0..(MaxRanges - 1) : \A m \in 0..(n - 1) : fresh(m) \in used } }

\* the disks on which the process goes on calling load_word_lang_chunk: the
\* Italian chunk varies
LangDisk ==
    \A r \in Resources \ {Res("it_chunk")} :
        disk[r] = DefaultDisk[r]

\* the process makes MaxCalls calls, or MaxLangCalls calls of
\* load_word_lang_chunk alone
MayCall(op) ==
    \/ Len(calls) < MaxCalls
    \/ /\ op = "load_word_lang_chunk"
       /\ Len(calls) < MaxLangCalls
       /\ LangDisk
       /\ \A i \in 1..Len(calls) : calls[i].op = "load_word_lang_chunk"

\* the call of operation op with key k that gave r
Called(op, k, r) ==
    /\ MayCall(op)
    /\ calls' = Append(calls, [ op |-> op, key |-> k, raised |-> r.raised,
                                exc |-> r.exc, failed |-> r.failed,
                                failed_key |-> r.failed_key,
                                value |-> r.value, opened |-> r.opened ])
    /\ cache' = r.cache
    /\ UNCHANGED <<disk, searchVars, normVars, cmdVars, cardVars, toolVars>>

SearchPrefixReads ==
    \E dm \in Domains, md \in Modes :
        Called("search_prefix", <<dm, md>>, SearchPrefixFiles(disk, cache, dm, md))

\* word_card(repo, wid, lang_pref) for an id of the chunk range that the
\* chunk holds: the files it reads. The canonical chunk, the English chunk of
\* its range and, for lang_pref "it", the Italian chunks of its range;
\* without a canonical chunk it reads no language file.
WordCardReads ==
    \E lang_pref \in {"it", "en"} :
        LET chunks == list_word_chunks(disk, cache)
            core == WordChunkFiles(disk, cache)
            en == load_word_lang_chunk(disk, core.cache, "en", ChunkRange[1], ChunkRange[2])
            it == load_word_lang_chunk(disk, en.cache, "it", ChunkRange[1], ChunkRange[2])
            core_en == WithCache(Then(core, en), en.cache)
        IN  Called("word_card", <<lang_pref>>,
                   IF chunks.value = <<>> \/ core.raised THEN core
                   ELSE IF en.raised \/ lang_pref # "it" THEN core_en
                   ELSE WithCache(Then(core_en, it), it.cache))

LoadWordLangChunk ==
    \E lang \in {"en", "it"}, r \in LangRanges(calls) :
        /\ lang = "en" => r = ChunkRange
        /\ Called("load_word_lang_chunk", <<lang, r[1], r[2]>>,
                  load_word_lang_chunk(disk, cache, lang, r[1], r[2]))

ListItWordChunks == Called("list_it_word_chunks", <<>>, list_it_word_chunks(disk, cache))

LoadKanji == Called("load_kanji", <<>>, load_kanji(disk, cache))

LoadNamesMeta == Called("load_names_meta", <<>>, load_names_meta(disk, cache))

LoadNamesChunk == Called("load_names_chunk", <<"names_chunk">>, load_names_chunk(disk, cache))

LoadCategoriesManifest ==
    Called("load_categories_manifest", <<>>, load_categories_manifest(disk, cache))

StoreNext ==
    \/ SearchPrefixReads
    \/ WordCardReads
    \/ LoadWordLangChunk
    \/ ListItWordChunks
    \/ LoadKanji
    \/ LoadNamesMeta
    \/ LoadNamesChunk
    \/ LoadCategoriesManifest

StoreSpec == StoreInit /\ [][StoreNext]_vars

(***************************************************************************)
(* Housekeeping tools: apply_compression, sanitize_repo, prune_repo and    *)
(* remove_uncompressed_json. A JSON value is a tagged record; a dict keeps *)
(* its items in order. A file is named by its directory, its stem and its  *)
(* extension; fs.files maps the files that exist to their contents.        *)
(***************************************************************************)
JStr(s) == [t |-> "str", s |-> s]

JNum(n) == [t |-> "num", n |-> n]

JObj(items) == [t |-> "dict", items |-> items]

JList(elems) == [t |-> "list", elems |-> elems]

Item(k, v) == [k |-> k, v |-> v]

FORBIDDEN_KEYS ==
    { "generated_at_utc", "generated_at", "created_at", "build_stamp", "built_at",
      "timestamp", "time_utc", "supersedes", "superseded_by" }

\* `"generated_at" in k`, on the keys the model's documents use
ContainsGeneratedAt(k) ==
    k \in {"generated_at", "generated_at_utc", "last_generated_at"}

Forbidden(k) == k \in FORBIDDEN_KEYS \/ ContainsGeneratedAt(k)

\* d.get(k) is a dict that has key k2
HasDictWith(items, k, k2) ==
    \E i \in 1..Len(items) :
        /\ items[i].k = k
        /\ items[i].v.t = "dict"
        /\ \E j \in 1..Len(items[i].v.items) : items[i].v.items[j].k = k2

\* d[k][k2], for HasDictWith(items, k, k2)
DictOfGet(items, k, k2) ==
    LET sch == items[CHOOSE i \in 1..Len(items) : items[i].k = k].v.items
    IN  sch[CHOOSE j \in 1..Len(sch) : sch[j].k = k2].v

\* sch = out.get("schema"); if it is a dict with a "version": sch["version"] = "1.0"
NormalizeSchema(items) ==
    [ i \in 1..Len(items) |->
        IF items[i].k = "schema" /\ items[i].v.t = "dict"
        THEN Item("schema",
                  JObj([ j \in 1..Len(items[i].v.items) |->
                           IF items[i].v.items[j].k = "version"
                           THEN Item("version", JStr("1.0"))
                           ELSE items[i].v.items[j] ]))
        ELSE items[i] ]

RECURSIVE sanitize(_), SanitizeItems(_), SanitizeElems(_)
\* sanitize(obj) of sanitize_repo.py: the sanitized value and the number of
\* keys removed
sanitize(obj) ==
    IF obj.t = "dict"
    THEN LET r == SanitizeItems(obj.items)
         IN  [value |-> JObj(NormalizeSchema(r.items)), removed |-> r.removed]
    ELSE IF obj.t = "list"
    THEN LET r == SanitizeElems(obj.elems)
         IN  [value |-> JList(r.elems), removed |-> r.removed]
    ELSE [value |-> obj, removed |-> 0]

\* the loop over obj.items()
SanitizeItems(items) ==
    IF items = <<>> THEN [items |-> <<>>, removed |-> 0]
    ELSE LET h == Head(items)
             rest == SanitizeItems(Tail(items))
         IN  IF Forbidden(h.k)
             THEN [items |-> rest.items, removed |-> rest.removed + 1]
             ELSE LET v == sanitize(h.v)
                  IN  [ items |-> <<Item(h.k, v.value)>> \o rest.items,
                        removed |-> v.removed + rest.removed ]

\* the loop over the elements of a list
SanitizeElems(elems) ==
    IF elems = <<>> THEN [elems |-> <<>>, removed |-> 0]
    ELSE LET v == sanitize(Head(elems))
             rest == SanitizeElems(Tail(elems))
         IN  [elems |-> <<v.value>> \o rest.elems, removed |-> v.removed + rest.removed]

\* sanitize(obj) of apply_compression.py returns the value only
apply_sanitize(obj) == sanitize(obj).value

\* the test of main of sanitize_repo that counts a file as changed and, with
\* --write, rewrites it: a key was removed, or the version of the top-level
\* schema was not "1.0" and now is
FileChanged(obj) ==
    LET new == sanitize(obj)
    IN  \/ new.removed > 0
        \/ /\ new.value.t = "dict"
           /\ HasDictWith(new.value.items, "schema", "version")
           /\ DictOfGet(new.value.items, "schema", "version") = JStr("1.0")
           /\ obj.t = "dict"
           /\ \E i \in 1..Len(obj.items) : obj.items[i].k = "schema" /\ obj.items[i].v.t = "dict"
           /\ ~( HasDictWith(obj.items, "schema", "version")
                 /\ DictOfGet(obj.items, "schema", "version") = JStr("1.0") )

\* file contents that are not JSON documents
Malformed == [t |-> "malformed"]

Partial == [t |-> "partial"]

Pyc == [t |-> "pyc"]

Absent == [t |-> "absent"]

IsJson(content) == content.t \in {"str", "num", "dict", "list"}

\* files
File(dir, stem, ext) == [dir |-> dir, stem |-> stem, ext |-> ext]

GzOf(f) == File(f.dir, f.stem, "json.gz")

TmpOf(f) == File(f.dir, f.stem, "json.gz.tmp")

IsPycacheDir(dir) == dir = "data/__pycache__"

\* the files left when the files of S are deleted
Without(files, S) == [f \in DOMAIN files \ S |-> files[f]]

\* the files when file f is written with content c
Written(files, f, c) == [g \in DOMAIN files \cup {f} |-> IF g = f THEN c ELSE files[g]]

\* the files under the data directory, which three of the tools walk
InData(f) == f.dir \in {"data", "data/__pycache__"}

\* fnmatch of the file's relative path against a pattern list of the plan's policy
MatchesAny(f, stems) == f.stem \in stems

\* the candidates of apply_compression: the .json files under the data
\* directory that no exclusion and no keep_plain_json pattern matches and some
\* compress_to_json_gz pattern matches
Candidates(files, pl) ==
    { f \in DOMAIN files :
        /\ InData(f)
        /\ f.ext = "json"
        /\ ~(MatchesAny(f, pl.exclusions) \/ MatchesAny(f, pl.keep_plain_json))
        /\ MatchesAny(f, pl.compress_to_json_gz) }

\* what apply_compression writes into the .json.gz for the object it read
Converted(obj, san) == IF san THEN apply_sanitize(obj) ELSE obj

\* mutant of DeletesOriginal: the original is deleted whatever --keep-original says
DeletesOriginalAlways(keep_original) == TRUE

\* `if not args.keep_original: src.unlink()`
DeletesOriginal(keep_original) == ~keep_original

\* iter_json_paths of sanitize_repo: the .json and .json.gz files under the data directory
iter_json_paths(files) ==
    { f \in DOMAIN files : InData(f) /\ f.ext \in {"json", "json.gz"} }

RECURSIVE SumRemoved(_, _)
\* removed_total over the files of S
SumRemoved(S, files) ==
    IF S = {} THEN 0
    ELSE LET f == CHOOSE x \in S : TRUE
         IN  sanitize(files[f]).removed + SumRemoved(S \ {f}, files)

\* the files main of sanitize_repo counts as changed
ChangedFiles(files) ==
    { f \in iter_json_paths(files) : IsJson(files[f]) /\ FileChanged(files[f]) }

\* the report main of sanitize_repo prints, and its exit code
SanitizeReport(files) ==
    LET errors == { f \in iter_json_paths(files) : ~IsJson(files[f]) }
    IN  [ changed_files |-> Cardinality(ChangedFiles(files)),
          removed_total |-> SumRemoved(ChangedFiles(files), files),
          parse_errors |-> Cardinality(errors),
          code |-> IF errors = {} THEN 0 ELSE 1 ]

\* the files after a run of sanitize_repo: with --write every changed file is
\* rewritten in place with its sanitized value
SanitizedFiles(files, write) ==
    IF write
    THEN [ f \in DOMAIN files |->
             IF f \in ChangedFiles(files) THEN sanitize(files[f]).value ELSE files[f] ]
    ELSE files

\* mutant of find_dupes: every .json file is listed, with or without a sibling
find_dupesAnyJson(files) == { f \in DOMAIN files : f.ext = "json" }

\* find_dupes of prune_repo: the .json files with a .json.gz of the same name in
\* the same directory
find_dupes(files) ==
    { f \in DOMAIN files : f.ext = "json" /\ GzOf(f) \in DOMAIN files }

\* find_pycache of prune_repo
find_pycache(dirs) == { d \in dirs : IsPycacheDir(d) }

\* the tree after the first loop of main of prune_repo: with --write every
\* __pycache__ directory is removed with all it holds
AfterRmtree(tree, write) ==
    IF write
    THEN [ files |-> Without(tree.files, { f \in DOMAIN tree.files : f.dir \in find_pycache(tree.dirs) }),
           dirs |-> tree.dirs \ find_pycache(tree.dirs) ]
    ELSE tree

\* the .json files main of prune_repo lists in json_removed
JsonRemoved(tree, write, remove_json) ==
    IF remove_json THEN find_dupes(AfterRmtree(tree, write).files) ELSE {}

\* the tree after a run of prune_repo
Pruned(tree, write, remove_json) ==
    LET t == AfterRmtree(tree, write)
    IN  IF write
        THEN [t EXCEPT !.files = Without(t.files, JsonRemoved(tree, write, remove_json))]
        ELSE tree

\* the files remove_uncompressed_json lists in `deleted`: the .json files under
\* data that no exclusion matches, that a compress pattern matches and whose
\* .json.gz exists
Deleted(files, pl) ==
    { f \in DOMAIN files :
        /\ InData(f)
        /\ f.ext = "json"
        /\ ~MatchesAny(f, pl.exclusions)
        /\ MatchesAny(f, pl.compress_to_json_gz)
        /\ GzOf(f) \in DOMAIN files }

\* mutant of RemoveUncompressedFiles: the files are deleted without --write too
RemoveUncompressedFilesUnguarded(files, pl, write) == Without(files, Deleted(files, pl))

\* the files after a run of remove_uncompressed_json
RemoveUncompressedFiles(files, pl, write) ==
    IF write THEN Without(files, Deleted(files, pl)) ELSE files

\* the documents of the model's files
Docs ==
    LET old == JObj(<<Item("version", JStr("2.0"))>>)
        bad == JObj(<<Item("created_at", JStr("x")), Item("a", JStr("x"))>>)
    IN  { JObj(<<Item("a", JStr("x"))>>),
          bad,
          JObj(<<Item("a", JObj(<<Item("timestamp", JStr("x"))>>))>>),
          JObj(<<Item("last_generated_at", JStr("x"))>>),
          JObj(<<Item("schema", old)>>),
          JObj(<<Item("schema", JObj(<<Item("version", JNum(1))>>))>>),
          JObj(<<Item("schema", JObj(<<Item("version", JStr("1.0"))>>))>>),
          JObj(<<Item("schema", JObj(<<Item("name", JStr("x"))>>))>>),
          JObj(<<Item("schema", JStr("x"))>>),
          JObj(<<Item("schema", JObj(<<Item("version", JStr("2.0")), Item("built_at", JStr("x"))>>))>>),
          JObj(<<Item("a", JObj(<<Item("schema", old)>>))>>),
          JList(<<JObj(<<Item("schema", old)>>)>>),
          JList(<<bad>>),
          JStr("x") }

DocClean == JObj(<<Item("a", JStr("x"))>>)

DocForbidden == JObj(<<Item("created_at", JStr("x")), Item("a", JStr("x"))>>)

DocSchemaOld == JObj(<<Item("schema", JObj(<<Item("version", JStr("2.0"))>>))>>)

\* the plans: which stems each pattern list matches
Plans ==
    { [compress_to_json_gz |-> {"a", "b"}, keep_plain_json |-> {}, exclusions |-> {}],
      [compress_to_json_gz |-> {"a", "b"}, keep_plain_json |-> {"b"}, exclusions |-> {}],
      [compress_to_json_gz |-> {"a", "b"}, keep_plain_json |-> {}, exclusions |-> {"b"}],
      [compress_to_json_gz |-> {"a"}, keep_plain_json |-> {}, exclusions |-> {}] }

\* a tree from the contents of its files; Absent for a file that does not exist
Tree(a, agz, b, bgz, pycache) ==
    LET all == (File("data", "a", "json") :> a) @@ (File("data", "a", "json.gz") :> agz)
               @@ (File("data", "b", "json") :> b) @@ (File("data", "b", "json.gz") :> bgz)
               @@ (File("tools", "t", "json") :> DocSchemaOld)
               @@ (File("tools", "t", "json.gz") :> DocSchemaOld)
               @@ (File("data/__pycache__", "p", "json") :> (IF pycache THEN DocForbidden ELSE Absent))
               @@ (File("data/__pycache__", "p", "json.gz") :> (IF pycache THEN DocForbidden ELSE Absent))
               @@ (File("data/__pycache__", "m", "pyc") :> (IF pycache THEN Pyc ELSE Absent))
    IN  [ files |-> [f \in { g \in DOMAIN all : all[g] # Absent } |-> all[f]],
          dirs |-> {"data", "tools"} \cup (IF pycache THEN {"data/__pycache__"} ELSE {}) ]

NoFile == File("", "", "")

\* no tool has run
NoJob ==
    [ tool |-> "none", write |-> FALSE, sanitize |-> FALSE, keep_original |-> FALSE,
      remove_json |-> FALSE, phase |-> "exit", code |-> 0, todo |-> {}, cur |-> NoFile,
      converted |-> 0, orig |-> <<>>, report |-> <<>> ]

ToolInit ==
    /\ \/ \E a \in Docs \cup {Malformed} :
             /\ fs = Tree(a, Absent, DocForbidden, Absent, FALSE)
             /\ plan = [compress_to_json_gz |-> {"a", "b"}, keep_plain_json |-> {}, exclusions |-> {}]
       \/ \E a \in {DocClean, DocForbidden, Malformed}, agz \in {Absent, DocClean},
             b \in {Absent, DocSchemaOld}, pycache \in BOOLEAN :
             /\ fs = Tree(a, agz, b, DocSchemaOld, pycache)
             /\ plan \in Plans
    /\ job = NoJob
    /\ runs = 0
    /\ SearchIdle
    /\ NormIdle
    /\ CmdIdle
    /\ CardIdle
    /\ StoreIdle

\* a tool starts when the tool before it has exited
Starts ==
    /\ job.phase = "exit"
    /\ runs < MaxRuns
    /\ runs' = runs + 1
    /\ UNCHANGED <<plan, searchVars, normVars, cmdVars, cardVars, storeVars>>

\* main of apply_compression up to its loop: the candidates and the report;
\* without --write it returns 0 here
ApplyStart(write, san, keep_original) ==
    /\ Starts
    /\ job' = [ NoJob EXCEPT
                  !.tool = "apply_compression", !.write = write, !.sanitize = san,
                  !.keep_original = keep_original,
                  !.phase = IF write /\ Candidates(fs.files, plan) # {} THEN "loop" ELSE "exit",
                  !.todo = Candidates(fs.files, plan),
                  !.orig = fs.files,
                  !.report = [candidates |-> Cardinality(Candidates(fs.files, plan))] ]
    /\ fs' = fs

\* one turn of the loop up to the end of the `with` of write_json_gz: read_json,
\* sanitize, and the temporary file written; json.load raises on a malformed
\* source and the write may fail, and either ends the run with code 1
ApplyConvert ==
    /\ job.tool = "apply_compression"
    /\ job.phase = "loop"
    /\ \E src \in job.todo, fails \in BOOLEAN :
          IF ~IsJson(fs.files[src])
          THEN /\ job' = [job EXCEPT !.phase = "exit", !.code = 1]
               /\ fs' = fs
          ELSE IF fails
          THEN /\ job' = [job EXCEPT !.phase = "exit", !.code = 1]
               /\ fs' = [fs EXCEPT !.files = Written(fs.files, TmpOf(src), Partial)]
          ELSE /\ job' = [job EXCEPT !.phase = "replace", !.cur = src]
               /\ fs' = [fs EXCEPT !.files = Written(fs.files, TmpOf(src),
                                                    Converted(fs.files[src], job.sanitize))]
    /\ UNCHANGED <<plan, runs, searchVars, normVars, cmdVars, cardVars, storeVars>>

\* tmp.replace(path_gz)
ApplyReplace ==
    /\ job.tool = "apply_compression"
    /\ job.phase = "replace"
    /\ fs' = [fs EXCEPT !.files = Written(Without(fs.files, {TmpOf(job.cur)}), GzOf(job.cur),
                                         fs.files[TmpOf(job.cur)])]
    /\ job' = [job EXCEPT !.phase = "unlink", !.converted = job.converted + 1]
    /\ UNCHANGED <<plan, runs, searchVars, normVars, cmdVars, cardVars, storeVars>>

\* the end of the turn: the original is deleted unless --keep-original; after
\* the last candidate the tool returns 0
ApplyUnlink ==
    /\ job.tool = "apply_compression"
    /\ job.phase = "unlink"
    /\ fs' = [fs EXCEPT !.files = IF DeletesOriginal(job.keep_original)
                                  THEN Without(fs.files, {job.cur}) ELSE fs.files]
    /\ job' = [job EXCEPT !.todo = job.todo \ {job.cur}, !.cur = NoFile,
                          !.phase = IF job.todo = {job.cur} THEN "exit" ELSE "loop"]
    /\ UNCHANGED <<plan, runs, searchVars, normVars, cmdVars, cardVars, storeVars>>

\* main of sanitize_repo
SanitizeRepo(write) ==
    /\ Starts
    /\ fs' = [fs EXCEPT !.files = SanitizedFiles(fs.files, write)]
    /\ job' = [ NoJob EXCEPT !.tool = "sanitize_repo", !.write = write,
                             !.code = SanitizeReport(fs.files).code,
                             !.orig = fs.files,
                             !.report = SanitizeReport(fs.files) ]

\* main of prune_repo
PruneRepo(write, remove_json) ==
    /\ Starts
    /\ fs' = Pruned(fs, write, remove_json)
    /\ job' = [ NoJob EXCEPT !.tool = "prune_repo", !.write = write,
                             !.remove_json = remove_json,
                             !.orig = fs.files,
                             !.report = [ pycache_dirs |-> find_pycache(fs.dirs),
                                          json_removed |-> JsonRemoved(fs, write, remove_json) ] ]

\* main of remove_uncompressed_json
RemoveUncompressedJson(write) ==
    /\ Starts
    /\ fs' = [fs EXCEPT !.files = RemoveUncompressedFiles(fs.files, plan, write)]
    /\ job' = [ NoJob EXCEPT !.tool = "remove_uncompressed_json", !.write = write,
                             !.orig = fs.files,
                             !.report = [deleted |-> Deleted(fs.files, plan)] ]

ToolNext ==
    \/ \E write, san, keep_original \in BOOLEAN : ApplyStart(write, san, keep_original)
    \/ ApplyConvert
    \/ ApplyReplace
    \/ ApplyUnlink
    \/ \E write \in BOOLEAN : SanitizeRepo(write)
    \/ \E write, remove_json \in BOOLEAN : PruneRepo(write, remove_json)
    \/ \E write \in BOOLEAN : RemoveUncompressedJson(write)

ToolSpec == ToolInit /\ [][ToolNext]_vars

(***************************************************************************)
(* Vocabulary of the properties.                                           *)
(***************************************************************************)
Done == pc = "done"

Range(seq) == {seq[i] : i \in 1..Len(seq)}

OutIds == {out[i].id : i \in 1..Len(out)}

OutKeys == {out[i].matched_key : i \in 1..Len(out)}

\* the position of id w in the returned list
PosOf(w) == CHOOSE i \in 1..Len(out) : out[i].id = w

\* the tuples appended to results over all variants
Collected == Range(AllResults(scans))

\* the ranking tuple (exact, common_flag, score, -key_len) of a results tuple
\* and of a returned entry
Rank4(t) == <<t[1], t[2], t[3], t[4]>>

Rank4Of(e) ==
    << IF e.exact THEN 1 ELSE 0, IF e.common THEN 1 ELSE 0, e.score, -e.key_len >>

\* a < b on ranking tuples
Less4(a, b) ==
    \E d \in 1..4 : a[d] < b[d] /\ \A i \in 1..(d - 1) : a[i] = b[i]

\* the keys of the shard a variant was searched in that start with the variant
MatchingKeys(sc) == {k \in Range(shards[sc.base].keys) : startswith(k, sc.qn)}

\* the ids listed under those keys
MatchingIdsOf(sc) ==
    UNION { Range(MapGet(shards[sc.base].map, k)) : k \in MatchingKeys(sc) }

MatchingIds == UNION { MatchingIdsOf(scans[i]) : i \in 1..Len(scans) }

StrictlySorted(keys) == \A i \in 1..(Len(keys) - 1) : StrLess(keys[i], keys[i + 1])

(***************************************************************************)
(* C1. Soundness of search_prefix.                                         *)
(***************************************************************************)
SoundEntry(e) ==
    \E i \in 1..Len(scans) :
        LET sc == scans[i]
            sh == shards[sc.base]
        IN  /\ sc.qn = normalize_query_search_variants(query)[i]
            /\ sc.base \in Range(manifest[domain][mode])
            /\ e.matched_key \in Range(sh.keys)
            /\ startswith(e.matched_key, sc.qn)
            /\ e.matched_key \in DOMAIN sh.map
            /\ e.id \in Range(sh.map[e.matched_key])

\* C1: every returned entry has a matched_key that is a key of the shard
\* selected for some search variant of the query, starts with that variant,
\* and lists the entry's id in that shard's key -> ids map; so no id comes
\* from a key that does not start with a variant or has no entry in the map.
C1_Sound == Done => \A i \in 1..Len(out) : SoundEntry(out[i])

\* a call that returned entries although the scanned shard also holds a
\* matched key without a map entry and a key with ids outside the prefix
C1_Witness ==
    /\ Done
    /\ out # <<>>
    /\ \E i \in 1..Len(scans) :
          LET sh == shards[scans[i].base]
          IN  /\ \E k \in Range(scans[i].match_keys) : k \notin DOMAIN sh.map
              /\ \E k \in DOMAIN sh.map :
                    /\ k \in Range(sh.keys)
                    /\ ~startswith(k, scans[i].qn)
                    /\ Range(sh.map[k]) \cap OutIds = {}

(***************************************************************************)
(* C2. Completeness of search_prefix when nothing is capped.               *)
(***************************************************************************)
NotCapped ==
    /\ \A i \in 1..Len(scans) :
          /\ StrictlySorted(shards[scans[i].base].keys)
          /\ Cardinality(MatchingKeys(scans[i])) < max_keys
    /\ limit >= Cardinality(MatchingIds)

\* C2: when the key arrays are strictly sorted, fewer than max_keys keys of
\* each variant's shard start with the variant, and limit is at least the
\* number of distinct matching ids, every id listed under a key that starts
\* with a variant is returned.
C2_Complete == (Done /\ NotCapped) => MatchingIds \subseteq OutIds

\* an uncapped call whose binary search skipped keys and whose scan then
\* went over two matching keys
C2_Witness ==
    /\ Done
    /\ NotCapped
    /\ \E i \in 1..Len(scans) :
          /\ scans[i].start > 0
          /\ Cardinality(MatchingKeys(scans[i])) >= 2
          /\ MatchingIdsOf(scans[i]) # {}

(***************************************************************************)
(* C3. One entry per id, the best one.                                     *)
(***************************************************************************)
\* C3: no id appears twice in the returned list, and the entry kept for an
\* id carries the highest tuple (exact, common_flag, score, -key_len) among
\* all the (variant, key) matches of that id.
C3_BestPerId ==
    Done =>
        /\ \A i, j \in 1..Len(out) : out[i].id = out[j].id => i = j
        /\ \A i \in 1..Len(out) :
              /\ \E t \in Collected :
                    /\ t[6] = out[i].id
                    /\ t[5] = out[i].matched_key
                    /\ Rank4(t) = Rank4Of(out[i])
              /\ \A t \in Collected :
                    t[6] = out[i].id => ~Less4(Rank4Of(out[i]), Rank4(t))

\* a returned id that a later variant matched with a higher tuple than an
\* earlier variant did
C3_Witness ==
    /\ Done
    /\ \E i, j \in 1..Len(scans) :
          /\ i < j
          /\ \E t \in Range(scans[i].results), u \in Range(scans[j].results) :
                /\ t[6] = u[6]
                /\ t[6] \in OutIds
                /\ Less4(Rank4(t), Rank4(u))

(***************************************************************************)
(* C4. Order and truncation.                                               *)
(***************************************************************************)
\* C4: the returned list is ordered non-increasingly by the ranking tuple,
\* has at most limit entries, and is the top of the ranking: an id is cut
\* only when limit entries are returned, and no cut id has a tuple strictly
\* higher than a returned one.
C4_RankedTop ==
    Done =>
        /\ \A i, j \in 1..Len(out) :
              i < j => ~Less4(Rank4Of(out[i]), Rank4Of(out[j]))
        /\ Len(out) <= limit
        /\ \A t \in Collected :
              t[6] \notin OutIds =>
                 /\ Len(out) = limit
                 /\ \A i \in 1..Len(out) : ~Less4(Rank4Of(out[i]), Rank4(t))

\* a call that returned two entries of different rank and cut a third id
C4_Witness ==
    /\ Done
    /\ Len(out) >= 2
    /\ Less4(Rank4Of(out[2]), Rank4Of(out[1]))
    /\ \E t \in Collected : t[6] \notin OutIds

(***************************************************************************)
(* C5. Common first.                                                       *)
(***************************************************************************)
RankCommon(w) == rank.exists /\ w \in DOMAIN rank.table /\ rank.table[w].common

RankScore(w) ==
    IF rank.exists /\ w \in DOMAIN rank.table THEN rank.table[w].score ELSE 0

CollectedIds == {t[6] : t \in Collected}

ExactStatus(w) == \E t \in Collected : t[6] = w /\ t[1] = 1

\* id a is ranked before id b: when b is returned, a is returned before it
RankedFirst(a, b) == b \in OutIds => (a \in OutIds /\ PosOf(a) < PosOf(b))

\* two matched ids with the same exact status, a common with the lower score
\* and b not common with the higher score
CommonVersusScore(a, b) ==
    /\ a # b
    /\ ExactStatus(a) = ExactStatus(b)
    /\ RankCommon(a) /\ ~RankCommon(b)
    /\ RankScore(a) < RankScore(b)

\* C5: on the words domain, of two matched ids with the same exact status,
\* one common in the rank table with the lower score and one not common with
\* the higher score, the common id is ranked first when common_first is true
\* and the id with the higher score when common_first is false.
C5_CommonFirst ==
    (Done /\ domain = "words") =>
        \A a, b \in CollectedIds :
            CommonVersusScore(a, b) =>
                IF common_first THEN RankedFirst(a, b) ELSE RankedFirst(b, a)

\* a words search with common_first that returned such a pair of ids
C5_Witness ==
    /\ Done
    /\ domain = "words"
    /\ common_first
    /\ \E a, b \in OutIds : CommonVersusScore(a, b) /\ PosOf(a) < PosOf(b)

(***************************************************************************)
(* C6. max_keys as a hard cap per variant.                                 *)
(***************************************************************************)
\* C6: for every variant and every max_keys >= 0, 0 included, the scan
\* collects at most max_keys matched keys and stops scanning as soon as the
\* cap is reached. The loop tests the cap only after appending a key, so
\* with max_keys = 0 it collects one key.
C6_HardCap ==
    Done =>
        \A i \in 1..Len(scans) :
            /\ Len(scans[i].match_keys) <= max_keys
            /\ scans[i].stop = scans[i].start + Len(scans[i].match_keys)

(***************************************************************************)
(* C7. The cap and the number of distinct matched keys.                    *)
(***************************************************************************)
\* C7 as stated: the result set is drawn from at most max_keys distinct
\* matched keys in total, whatever the number of variants (max_keys >= 1
\* here, which keeps the max_keys = 0 defect of C6 out of the refutation).
C7_TotalCap == (Done /\ max_keys >= 1) => Cardinality(OutKeys) <= max_keys

\* C7 amended: every returned key is a matched key of some variant; with
\* max_keys >= 1 each variant contributes at most max_keys distinct keys, so
\* the result set is drawn from at most max_keys times the number of
\* variants keys; with max_keys = 0 each variant still contributes one key.
C7_PerVariantCap ==
    Done =>
        /\ OutKeys \subseteq UNION { Range(scans[i].match_keys) : i \in 1..Len(scans) }
        /\ \A i \in 1..Len(scans) :
              Cardinality(Range(scans[i].match_keys)) <=
                  (IF max_keys >= 1 THEN max_keys ELSE 1)
        /\ max_keys >= 1 => Cardinality(OutKeys) <= max_keys * Len(scans)

\* a capped scan of a shard with more than max_keys keys sharing the prefix,
\* in a call whose entries come from more than max_keys distinct keys
C7_Witness ==
    /\ Done
    /\ max_keys >= 1
    /\ Cardinality(OutKeys) > max_keys
    /\ \E i \in 1..Len(scans) :
          /\ Cardinality(MatchingKeys(scans[i])) > max_keys
          /\ Len(scans[i].match_keys) = max_keys

(***************************************************************************)
(* C8. Kana folding.                                                       *)
(***************************************************************************)
\* kata_to_hira maps exactly U+30A1-U+30F6, by subtracting 0x60
KanaMapExact(s) ==
    /\ Len(kata_to_hira(s)) = Len(s)
    /\ \A i \in 1..Len(s) :
          kata_to_hira(s)[i] =
              (IF 12449 <= s[i] /\ s[i] <= 12534 THEN s[i] - 96 ELSE s[i])

SearchOf(q) ==
    search_prefix(manifest, shards, rank, domain, mode, q, limit, max_keys,
                  common_first)

\* C8 as stated: kata_to_hira maps exactly the katakana letters
\* U+30A1-U+30F6 and, for every query q, search_prefix(q) returns the same
\* list as search_prefix(kata_to_hira(q)).
C8_FoldAnyQuery ==
    /\ KanaMapExact(query)
    /\ Done => out = SearchOf(kata_to_hira(query))

\* C8 amended: kata_to_hira maps exactly the katakana letters
\* U+30A1-U+30F6, and search is insensitive to folding the NFKC form of the
\* query: search_prefix(q) returns the same list as
\* search_prefix(kata_to_hira(NFKC(q))).
C8_FoldNormalizedQuery ==
    /\ KanaMapExact(query)
    /\ KanaMapExact(NFKC(query))
    /\ Done => out = SearchOf(kata_to_hira(NFKC(query)))

\* a query holding a katakana letter that found a key indexed in hiragana
C8_Witness ==
    /\ Done
    /\ kata_to_hira(query) # query
    /\ \E i \in 1..Len(out) : HIRAGANA_RE(out[i].matched_key)

(***************************************************************************)
(* C9. The empty query.                                                    *)
(***************************************************************************)
\* the shard a search of the empty prefix is served from
EmptyPrefixShard == shards[SelectBase(manifest[domain][mode], detect_bucket(<<>>))]

\* C9: a query that normalizes to the empty string is searched as the empty
\* prefix: when the first key of the shard has ids (and limit and max_keys
\* are at least 1), the call returns entries, all of them from the first
\* min(max_keys, number of keys) keys. The variant list drops the empty
\* string, so the call scans nothing and returns the empty list.
C9_EmptyQuerySearched ==
    ( /\ Done
      /\ normalize_query_search(query) = <<>>
      /\ limit >= 1
      /\ max_keys >= 1
      /\ EmptyPrefixShard.keys # <<>>
      /\ MapGet(EmptyPrefixShard.map, EmptyPrefixShard.keys[1]) # <<>> )
    => /\ out # <<>>
       /\ OutKeys \subseteq
             Range(SubSeq(EmptyPrefixShard.keys, 1,
                          Min(max_keys, Len(EmptyPrefixShard.keys))))

(***************************************************************************)
(* C10. Shard selection.                                                   *)
(***************************************************************************)
\* the positions of the shards of the (domain, mode) list tagged with a bucket
TaggedWith(bucket) ==
    {j \in 1..Len(manifest[domain][mode]) :
        endswith(manifest[domain][mode][j], bucket)}

\* C10: each variant is searched in the first shard, in manifest order of
\* the (domain, mode) list, whose name ends with the variant's bucket, and
\* in the last-listed shard when no name of the list ends with it; the keys
\* it matches are keys of that shard.
C10_ShardSelection ==
    Done =>
        \A i \in 1..Len(scans) :
            LET sc == scans[i]
                bases == manifest[domain][mode]
                hits == TaggedWith(detect_bucket(sc.qn))
            IN  /\ hits # {} =>
                      \E j \in hits : sc.base = bases[j] /\ \A k \in hits : j <= k
                /\ hits = {} => sc.base = bases[Len(bases)]
                /\ Range(sc.match_keys) \subseteq Range(shards[sc.base].keys)

\* one query whose variants were searched in different shards, one of them
\* the last-listed shard taken for lack of a tagged one
C10_Witness ==
    /\ Done
    /\ \E i, j \in 1..Len(scans) :
          /\ scans[i].base # scans[j].base
          /\ TaggedWith(detect_bucket(scans[i].qn)) # {}
          /\ TaggedWith(detect_bucket(scans[j].qn)) = {}
          /\ scans[i].match_keys # <<>>

(***************************************************************************)
(* Vocabulary of the normalizer and classifier properties.                 *)
(***************************************************************************)
\* the call of function f has returned
Returned(f) == fn = f /\ vals # <<>>

\* every code point of a non-empty string s is in the class of a bucket
AllHiraganaClass(s) == s # <<>> /\ \A i \in 1..Len(s) : InHiraganaClass(s[i])

AllKatakanaClass(s) == s # <<>> /\ \A i \in 1..Len(s) : InKatakanaClass(s[i])

AllLatinishClass(s) == s # <<>> /\ \A i \in 1..Len(s) : InLatinishClass(s[i])

HasKanji(s) == \E i \in 1..Len(s) : InKanjiClass(s[i])

\* a non-empty string of code points of the hiragana block U+3040-U+309F
PureHiragana(s) == s # <<>> /\ \A i \in 1..Len(s) : 12352 <= s[i] /\ s[i] <= 12447

Distinct(seq) == \A i, j \in 1..Len(seq) : seq[i] = seq[j] => i = j

(***************************************************************************)
(* C11. Idempotence of the normalization functions.                        *)
(***************************************************************************)
\* C11: for each of normalize_base, kata_to_hira and normalize_query_search,
\* applying the function to its own result returns that result unchanged.
\* casefold runs after NFKC and its output is not NFKC-stable: for U+00DF
\* U+0301 the first pass gives "ss" U+0301, which the second pass composes
\* to "s" U+015B.
C11_Idempotent ==
    (fn \in StringFunctions /\ Len(vals) = 2) => vals[2] = vals[1]

(***************************************************************************)
(* C12. The search variants.                                               *)
(***************************************************************************)
\* the four pipelines of variant generation, in generation order
VariantPipelines(q) ==
    << kata_to_hira(normalize_base(casefold(NFKC(q)))),
       kata_to_hira(fullwidth_mixed(casefold(NFKC(q)))),
       kata_to_hira(normalize_base(NFKC(q))),
       kata_to_hira(fullwidth_mixed(NFKC(q))) >>

\* v lists the non-empty values of c in the order of their first occurrence
FirstOccurrences(v, c) ==
    /\ Range(v) = Range(c) \ {<<>>}
    /\ \A i, j \in 1..Len(v) :
          i < j =>
             (CHOOSE k \in 1..Len(c) : c[k] = v[i] /\ \A m \in 1..(k - 1) : c[m] # v[i])
           < (CHOOSE k \in 1..Len(c) : c[k] = v[j] /\ \A m \in 1..(k - 1) : c[m] # v[j])

\* C12: normalize_query_search_variants(q) returns at most 4 strings,
\* pairwise distinct, the values of the four pipelines in generation order
\* with later duplicates dropped, and its first element is
\* normalize_query_search(q) whenever that string is not empty. The first
\* pipeline normalizes the case-folded NFKC form once more, so for U+00DF
\* U+0301 the first element is "s" U+015B and not "ss" U+0301.
C12_VariantsPrimaryFirst ==
    Returned("normalize_query_search_variants") =>
        LET v == vals[1]
        IN  /\ Len(v) <= 4
            /\ Distinct(v)
            /\ FirstOccurrences(v, VariantPipelines(text))
            /\ normalize_query_search(text) # <<>> =>
                  (v # <<>> /\ v[1] = normalize_query_search(text))

(***************************************************************************)
(* C13. The lookup candidates.                                             *)
(***************************************************************************)
\* C13: normalize_query_lookup_candidates(q) returns one or two candidates;
\* the first is normalize_base(q); there is a second one exactly when kana
\* folding changes the first, and it is the folded first; so the candidates
\* are never equal.
C13_LookupCandidates ==
    Returned("normalize_query_lookup_candidates") =>
        LET c == vals[1]
        IN  /\ Len(c) \in {1, 2}
            /\ c[1] = normalize_base(text)
            /\ Len(c) = 2 <=> kata_to_hira(c[1]) # c[1]
            /\ Len(c) = 2 => c[2] = kata_to_hira(c[1])
            /\ Distinct(c)

\* a call on a text that the baseline normalization changes and that kana
\* folding changes further
C13_Witness ==
    /\ Returned("normalize_query_lookup_candidates")
    /\ Len(vals[1]) = 2
    /\ vals[1][1] # text

(***************************************************************************)
(* C14. Totality and priority of the classifier.                           *)
(***************************************************************************)
\* C14: detect_bucket returns one of the five buckets for every string; a
\* string all of whose code points are in the class of a bucket gets the
\* first such bucket in the order hiragana, katakana, latin, a string
\* holding an ideograph gets kanji when none of these applies, and a string
\* of code points of the hiragana block is classified hiragana, never other.
C14_TotalPriority ==
    Returned("detect_bucket") =>
        LET b == vals[1]
        IN  /\ b \in Buckets
            /\ AllHiraganaClass(text) => b = "hiragana"
            /\ (AllKatakanaClass(text) /\ ~AllHiraganaClass(text)) => b = "katakana"
            /\ AllLatinishClass(text) => b = "latin"
            /\ HasKanji(text) => b = "kanji"
            /\ PureHiragana(text) => b = "hiragana"

\* the classification of a string that is in the hiragana class and in the
\* katakana class
C14_Witness ==
    /\ Returned("detect_bucket")
    /\ AllHiraganaClass(text)
    /\ AllKatakanaClass(text)
    /\ vals[1] = "hiragana"

(***************************************************************************)
(* C15. Whole-string anchoring of the classifier.                          *)
(***************************************************************************)
\* C15: detect_bucket returns hiragana, katakana or latin only if every
\* code point of the string, a final line feed included, is in the class of
\* that bucket, and returns kanji whenever the string holds an ideograph.
\* `$` also matches before a final line feed, so hiragana followed by a
\* line feed is classified hiragana.
C15_WholeString ==
    Returned("detect_bucket") =>
        LET b == vals[1]
        IN  /\ b = "hiragana" => AllHiraganaClass(text)
            /\ b = "katakana" => AllKatakanaClass(text)
            /\ b = "latin" => AllLatinishClass(text)
            /\ HasKanji(text) => b = "kanji"

(***************************************************************************)
(* Vocabulary of the merge properties.                                     *)
(***************************************************************************)
\* the merge tuple (exact, common-if-requested, score, surface-mode, -key_len)
\* of an entry
Merge5(e) ==
    << IF e.exact THEN 1 ELSE 0, IF common_first /\ e.common THEN 1 ELSE 0,
       e.score, IF e.mode = "surface" THEN 1 ELSE 0, -e.key_len >>

\* a < b on merge tuples
Less5(a, b) ==
    \E d \in 1..5 : a[d] < b[d] /\ \A i \in 1..(d - 1) : a[i] = b[i]

SameEntity(e, g) == e.domain = g.domain /\ e.id = g.id

\* the position in gathered of the first entry of the (domain, id) of e
FirstGathered(e) ==
    CHOOSE i \in 1..Len(gathered) :
        /\ SameEntity(e, gathered[i])
        /\ \A j \in 1..(i - 1) : ~SameEntity(e, gathered[j])

(***************************************************************************)
(* C16. Merge dedup.                                                       *)
(***************************************************************************)
\* C16: the final list holds each (domain, id) at most once; the entry kept
\* for a (domain, id) is one of its gathered entries, none of which has a
\* higher merge tuple, so that a surface-mode entry wins over a reading-mode
\* entry whose exact, common and score are the same; and, unless the list is
\* cut at limit, every gathered (domain, id) is kept, the same numeric id of
\* words and of names as two entries.
C16_MergeDedup ==
    Done =>
        /\ \A i, j \in 1..Len(cmd_final) :
              SameEntity(cmd_final[i], cmd_final[j]) => i = j
        /\ \A i \in 1..Len(cmd_final) :
              /\ cmd_final[i] \in Range(gathered)
              /\ \A g \in Range(gathered) :
                    SameEntity(cmd_final[i], g) =>
                       /\ ~Less5(Merge5(cmd_final[i]), Merge5(g))
                       /\ ( /\ g.mode = "surface"
                            /\ \A d \in 1..3 : Merge5(g)[d] = Merge5(cmd_final[i])[d] )
                          => cmd_final[i].mode = "surface"
        /\ Len(cmd_final) < limit =>
              \A g \in Range(gathered) :
                  \E i \in 1..Len(cmd_final) : SameEntity(cmd_final[i], g)

\* an id kept with its surface-mode entry although its reading-mode entry
\* has the shorter key, and kept once more for the other domain
C16_Witness ==
    /\ Done
    /\ \E i, j \in 1..Len(cmd_final) :
          /\ cmd_final[i].id = cmd_final[j].id
          /\ cmd_final[i].domain # cmd_final[j].domain
          /\ cmd_final[i].mode = "surface"
          /\ \E g \in Range(gathered) :
                /\ SameEntity(cmd_final[i], g)
                /\ g.mode = "reading"
                /\ g.key_len < cmd_final[i].key_len
                /\ \A d \in 1..3 : Merge5(g)[d] = Merge5(cmd_final[i])[d]

(***************************************************************************)
(* C17. Order, stability and truncation of the merged list.                *)
(***************************************************************************)
\* C17: the final list is ordered non-increasingly by the merge tuple;
\* entries with equal merge tuples are in the order in which their (domain,
\* id) was first gathered, and gathering goes words before names and, within
\* a domain, surface before reading; the list has at most limit entries.
C17_StableOrder ==
    Done =>
        /\ \A i, j \in 1..Len(cmd_final) :
              i < j =>
                 /\ ~Less5(Merge5(cmd_final[i]), Merge5(cmd_final[j]))
                 /\ Merge5(cmd_final[i]) = Merge5(cmd_final[j]) =>
                       FirstGathered(cmd_final[i]) < FirstGathered(cmd_final[j])
        /\ \A i, j \in 1..Len(gathered) :
              i < j =>
                 /\ ~(gathered[i].domain = "names" /\ gathered[j].domain = "words")
                 /\ gathered[i].domain = gathered[j].domain =>
                       ~(gathered[i].mode = "reading" /\ gathered[j].mode = "surface")
        /\ Len(cmd_final) <= limit

\* a list cut at limit that holds two entries of equal merge tuples, one of
\* words and after it one of names, and an entry of a lower tuple
C17_Witness ==
    /\ Done
    /\ Len(cmd_final) = limit
    /\ \E g \in Range(gathered) :
          \A i \in 1..Len(cmd_final) : ~SameEntity(cmd_final[i], g)
    /\ \E i, j \in 1..Len(cmd_final) :
          /\ i < j
          /\ Merge5(cmd_final[i]) = Merge5(cmd_final[j])
          /\ cmd_final[i].domain = "words"
          /\ cmd_final[j].domain = "names"
    /\ \E i, j \in 1..Len(cmd_final) : Less5(Merge5(cmd_final[j]), Merge5(cmd_final[i]))

(***************************************************************************)
(* Vocabulary of the card properties.                                      *)
(***************************************************************************)
Returns(f) == call.fn = f /\ card.done

\* the word chunks and the names chunks whose range holds the id asked for
WordChunksOfId == {c \in Range(repo.word_chunks) : c.a <= call.id /\ call.id <= c.b}

NameChunksOfId ==
    {c \in Range(repo.names_meta) : c.start_id <= call.id /\ call.id <= c.end_id}

\* the canonical records with the id asked for
CanonicalWords ==
    {c.entries[call.id] : c \in {x \in WordChunksOfId : call.id \in DOMAIN x.entries}}

CanonicalNames ==
    {repo.names_files[c.core_file].entries[call.id] :
        c \in {x \in NameChunksOfId :
                  /\ repo.names_files[x.core_file].exists
                  /\ call.id \in DOMAIN repo.names_files[x.core_file].entries}}

HasCanonical ==
    \/ (call.fn = "word_card" /\ CanonicalWords # {})
    \/ (call.fn = "name_card" /\ CanonicalNames # {})

\* the English word files, on disk, of the ranges that hold the id
EnFilesOfId ==
    {repo.en_words[<<c.a, c.b>>] : c \in {x \in WordChunksOfId : repo.en_words[<<x.a, x.b>>].exists}}

\* the Italian files listed in the meta file whose range meets a range that
\* holds the id
ItFilesOfId ==
    {f \in Range(repo.it_files) :
        /\ repo.it_meta_exists
        /\ \E c \in WordChunksOfId : ~(f.b < c.a \/ f.a > c.b)}

\* the glosses the files of set F give for sense sid of the id asked for
GlossesIn(F, sid) ==
    UNION { {f.entries[call.id].senses[i].gloss :
                i \in {j \in 1..Len(f.entries[call.id].senses) :
                          f.entries[call.id].senses[j].id = sid}} :
            f \in {x \in F : x.exists /\ call.id \in DOMAIN x.entries} }

\* g is the gloss list of a sense sid of the files of F, or the empty list
\* when they have no such sense
GlossFrom(g, F, sid) ==
    IF GlossesIn(F, sid) = {} THEN g = <<>> ELSE g \in GlossesIn(F, sid)

(***************************************************************************)
(* C18. Card assembly.                                                     *)
(***************************************************************************)
\* C18: for a word id with a canonical record, word_card raises nothing and
\* returns a senses list with one entry per canonical sense, in canonical
\* order and with the canonical sense id; gloss_en of an entry is the gloss
\* list of the English sense with that id, and gloss_it (Italian being the
\* preferred language) that of the Italian sense with that id, the empty
\* list when the language has no such sense; senses of a language chunk
\* alone are not added. An Italian file that the meta file lists and that
\* is not on disk makes the call raise FileNotFoundError.
C18_CardAssembly ==
    (Returns("word_card") /\ CanonicalWords # {}) =>
        /\ ~card.raised
        /\ "senses" \in card.keys
        /\ \E core \in CanonicalWords :
              /\ Len(card.senses) = Len(core.senses)
              /\ \A i \in 1..Len(core.senses) :
                    /\ card.senses[i].id = core.senses[i].id
                    /\ GlossFrom(card.senses[i].gloss_en, EnFilesOfId, core.senses[i].id)
                    /\ call.lang_pref = "it" =>
                          GlossFrom(card.senses[i].gloss_it, ItFilesOfId,
                                    core.senses[i].id)

(***************************************************************************)
(* C19. Unknown ids.                                                       *)
(***************************************************************************)
\* C19: for an id without a canonical record, whether no chunk range holds
\* the id or a range holds it and the chunk has no record with it,
\* word_card and name_card raise nothing and return a dict with an error
\* key. name_card returns a card without an error key, its fields None,
\* for an id that a range holds and the chunk lacks.
C19_UnknownIdMarked ==
    (card.done /\ ~HasCanonical) => (~card.raised /\ "error" \in card.keys)

(***************************************************************************)
(* C20. Missing language files.                                            *)
(***************************************************************************)
\* a language file that the call looks for is not on disk
EnWordsMissing == \E c \in WordChunksOfId : ~repo.en_words[<<c.a, c.b>>].exists

ItWordsMissing == call.lang_pref = "it" /\ \E f \in ItFilesOfId : ~f.exists

EnNamesMissing == \E c \in NameChunksOfId : ~repo.names_files[c.lang_en_file].exists

\* C20: for an id with a canonical record, word_card and name_card raise
\* nothing, and a language file that is not on disk (the English words file
\* of the range, an Italian file listed in the meta file, the English names
\* file named by the names meta) leaves the gloss or translation lists of
\* that language empty. Only the English words file is tested for
\* existence; the other two are opened as they are named.
C20_MissingAugmentation ==
    (card.done /\ HasCanonical) =>
        /\ ~card.raised
        /\ (call.fn = "word_card" /\ EnWordsMissing) =>
              \A i \in 1..Len(card.senses) : card.senses[i].gloss_en = <<>>
        /\ (call.fn = "word_card" /\ ItWordsMissing) =>
              \A i \in 1..Len(card.senses) : card.senses[i].gloss_it = <<>>
        /\ (call.fn = "name_card" /\ EnNamesMissing) => card.translations_en = <<>>

(***************************************************************************)
(* C21. Plain and compressed files are read alike.                         *)
(***************************************************************************)
\* resource r exists in one encoding only, .json or .json.gz, and is well formed
OneEncoding(r) ==
    \/ (disk[r].plain = "ok" /\ disk[r].gz = "absent")
    \/ (disk[r].plain = "absent" /\ disk[r].gz = "ok")

\* the JSON resources an operation reads, in the order it reads them
Needs(op, key) ==
    CASE op = "search_prefix" ->
            <<Res("manifest")>> \o
            (IF key[1] = "words" THEN <<Res("rank")>> ELSE <<>>) \o
            <<ShardRes("idx", key), ShardRes("keys", key)>>
      [] op = "word_card" ->
            <<Res("word_chunk"), Res("en_chunk")>> \o
            (IF key[1] = "it" THEN <<Res("it_meta"), Res("it_chunk")>> ELSE <<>>)
      [] op = "load_word_lang_chunk" ->
            IF <<key[2], key[3]>> # ChunkRange THEN (IF key[1] = "it" THEN <<Res("it_meta")>> ELSE <<>>)
            ELSE IF key[1] = "it" THEN <<Res("it_meta"), Res("it_chunk")>>
            ELSE <<Res("en_chunk")>>
      [] op = "list_it_word_chunks" -> <<Res("it_meta")>>
      [] op = "load_kanji" -> <<Res("kanji")>>
      [] op = "load_names_meta" -> <<Res("names_meta")>>
      [] op = "load_categories_manifest" -> <<Res("categories")>>
      [] OTHER -> <<>>

\* the payloads an operation returns: those of the resources it reads, but
\* for the Italian meta file, which only names the chunks
Gives(op, key) == SelectSeq(Needs(op, key), LAMBDA r : r # Res("it_meta"))

\* C21: every logical JSON resource read by search and card assembly (search
\* manifest, shard key array and key -> ids map, rank table, word chunks,
\* language chunks, kanji table, names and categories manifests) is read
\* successfully and with the same content whether only its .json file or only
\* its .json.gz file exists.
C21_TransparentEncoding ==
    \A i \in 1..Len(calls) :
        (\A r \in Range(Needs(calls[i].op, calls[i].key)) : OneEncoding(r)) =>
            (~calls[i].raised /\ calls[i].value = Gives(calls[i].op, calls[i].key))

(***************************************************************************)
(* C22. The search manifest is read once.                                  *)
(***************************************************************************)
\* the calls that read the manifest file from disk
ManifestReads ==
    { i \in 1..Len(calls) :
        \E j \in 1..Len(calls[i].opened) :
            /\ calls[i].opened[j].res = Res("manifest")
            /\ PathExists(disk, calls[i].opened[j]) }

\* C22: over any sequence of search_prefix calls of one process on one
\* repository, the manifest file is read from disk at most once.
C22_ManifestReadOnce == Cardinality(ManifestReads) <= 1

(***************************************************************************)
(* C23. A loader that fails leaves its cache alone.                        *)
(***************************************************************************)
CachedLoaders == DOMAIN LRU

\* the loader of the newest call failed
LoaderFailed(log) ==
    /\ log # <<>>
    /\ log[Len(log)].raised
    /\ log[Len(log)].failed \in CachedLoaders

\* the entries of the caches hold whole values: both files of a shard, the
\* payload of the one file of the other loaders, and nothing only for an
\* optional file that does not exist
WholeValues ==
    /\ \A i \in 1..Len(cache.load_search_index) :
          LET e == cache.load_search_index[i]
          IN  e.value = <<ShardRes("idx", e.key), ShardRes("keys", e.key)>>
    /\ \A i \in 1..Len(cache.load_word_chunk) :
          LET e == cache.load_word_chunk[i] IN e.value = <<e.key.res>>
    /\ \A i \in 1..Len(cache.load_names_chunk) :
          cache.load_names_chunk[i].value = <<Res("names_chunk")>>
    /\ \A i \in 1..Len(cache.load_kanji) : cache.load_kanji[i].value = <<Res("kanji")>>
    /\ \A i \in 1..Len(cache.load_names_meta) :
          cache.load_names_meta[i].value = <<Res("names_meta")>>
    /\ \A i \in 1..Len(cache.load_categories_manifest) :
          cache.load_categories_manifest[i].value = <<Res("categories")>>
    /\ \A i \in 1..Len(cache.load_word_lang_chunk) :
          LET e == cache.load_word_lang_chunk[i]
          IN  e.value =
                IF <<e.key[2], e.key[3]>> # ChunkRange THEN <<>>
                ELSE IF e.key[1] = "en"
                THEN (IF PathExists(disk, Resolved(disk, Res("en_chunk")))
                      THEN <<Res("en_chunk")>> ELSE <<>>)
                ELSE (IF PathExists(disk, Plain(Res("it_meta")))
                      THEN <<Res("it_chunk")>> ELSE <<>>)
    /\ \A i \in 1..Len(cache.list_it_word_chunks) :
          cache.list_it_word_chunks[i].value =
              IF PathExists(disk, Plain(Res("it_meta"))) THEN <<Res("it_meta")>> ELSE <<>>

\* s is the end of t
IsSuffix(s, t) == Len(s) <= Len(t) /\ SubSeq(t, Len(t) - Len(s) + 1, Len(t)) = s

\* a call made again after it failed fails the same way on the same file,
\* which it opens again; it opens the files it opened before, but for those
\* of the loaders that had returned and hold their value
FailedCallsRepeat ==
    \A i, j \in 1..Len(calls) :
        (i < j /\ calls[i].op = calls[j].op /\ calls[i].key = calls[j].key
               /\ calls[i].raised) =>
            /\ calls[j].raised
            /\ calls[j].exc = calls[i].exc
            /\ calls[j].opened # <<>>
            /\ IsSuffix(calls[j].opened, calls[i].opened)

\* C23: when a cached loader fails because a backing file is missing or
\* malformed, the failure is raised to the caller and the loader's cache is
\* exactly as before the call: it holds nothing for the key of the call
\* that failed and, when the loader was called directly, it is unchanged
\* (word_card calls the loader twice, and the call that returned before the
\* one that failed has stored its value); no cache ever holds a partial
\* value, and a later call with the same key reads the files again.
C23_NoPartialPopulation ==
    /\ [](WholeValues /\ FailedCallsRepeat)
    /\ [][LoaderFailed(calls') /\ calls' # calls =>
            LET last == calls'[Len(calls')]
            IN  /\ ~CacheHas(cache'[last.failed], last.failed_key)
                /\ last.op = last.failed => cache'[last.failed] = cache[last.failed]]_vars

\* load_search_index failed twice on a shard whose map file is well formed and
\* whose key array is missing or malformed
C23_Witness ==
    /\ Len(calls) = 2
    /\ calls[1].op = calls[2].op /\ calls[1].key = calls[2].key
    /\ calls[1].raised /\ calls[2].raised
    /\ calls[1].failed = "load_search_index"
    /\ Len(calls[1].opened) > 2
    /\ cache.load_search_index = <<>>

(***************************************************************************)
(* C24. Cards are assembled after the ranking.                             *)
(***************************************************************************)
\* the (domain, id) a card call is for
CallEntity(c) == [domain |-> IF c.fn = "word_card" THEN "words" ELSE "names", id |-> c.id]

Entity(e) == [domain |-> e.domain, id |-> e.id]

\* C24: in cmd_search, word_card and name_card are called only after the
\* merge, the sort and the truncation are complete, only for (domain, id)
\* entries of the truncated final list, and at most once per entry; no card is
\* assembled for a candidate that was deduplicated away or cut by the limit.
C24_CardsAfterRanking ==
    /\ card_calls # <<>> => (pc = "done" /\ shown <= Len(cmd_final))
    /\ Len(card_calls) <= Len(cmd_final)
    /\ \A i \in 1..Len(card_calls) :
          /\ \E j \in 1..Len(cmd_final) : CallEntity(card_calls[i]) = Entity(cmd_final[j])
          /\ \A j \in 1..Len(card_calls) :
                CallEntity(card_calls[i]) = CallEntity(card_calls[j]) => i = j

\* the output loop has run to its end and asked for the cards of a final
\* list that is shorter than the list of gathered candidates
C24_Witness ==
    /\ pc = "done"
    /\ shown = Len(cmd_final)
    /\ Len(card_calls) = Len(cmd_final)
    /\ Len(cmd_final) > 1
    /\ Len(cmd_final) < Len(gathered)
    /\ \E i \in 1..Len(card_calls) : card_calls[i].fn = "name_card"

(***************************************************************************)
(* C25. Truncation of each search before the merge.                        *)
(***************************************************************************)
\* every id of the index
IndexIds ==
    UNION { UNION { Range(shards[n].map[k]) : k \in DOMAIN shards[n].map } :
              n \in DOMAIN shards }

\* the entries of all the searches of cmd_search when no search is truncated
GatheredUntruncated ==
    Gathered(manifest, shards, rank, domain, mode, query, Cardinality(IndexIds),
             max_keys, common_first)

\* what the claim compares of an entry
Shown(e) ==
    [ domain |-> e.domain, id |-> e.id, mode |-> e.mode, exact |-> e.exact,
      matched_key |-> e.matched_key ]

ShownList(rs) == [i \in 1..Len(rs) |-> Shown(rs[i])]

\* C25: for every dataset, query and limit >= 0, the final list of cmd_search
\* (its entries, their order, and the mode, exact flag and matched key of each)
\* is the list obtained by merging the untruncated results of all the
\* (domain, mode) searches and truncating to limit once at the end.
C25_TruncationLossless ==
    Done => ShownList(cmd_final) =
            ShownList(Final(GatheredUntruncated, limit, common_first))

\* the merge tuples of a list, in its order
MergeTuples(rs) == [i \in 1..Len(rs) |-> MergeTuple(rs[i], common_first)]

\* C25 as amended: for every dataset, query and limit >= 0, the final list of
\* cmd_search has, position by position, the merge tuples (exact, common if
\* requested, score, surface preferred, -key_len) of the list obtained by
\* merging the untruncated results and truncating to limit once at the end;
\* which of several entries with equal merge tuples are returned, and in
\* which order, may differ.
C25_TruncationKeepsRanks ==
    Done => MergeTuples(cmd_final) =
            MergeTuples(Final(GatheredUntruncated, limit, common_first))

\* a cmd_search whose searches were cut by the limit and whose final list is
\* not the one the untruncated merge gives
C25_Witness ==
    /\ Done
    /\ Len(gathered) < Len(GatheredUntruncated)
    /\ cmd_final # <<>>
    /\ ShownList(cmd_final) # ShownList(Final(GatheredUntruncated, limit, common_first))

(***************************************************************************)
(* C26. common_first = false: the common flags of the rank table.          *)
(***************************************************************************)
\* rank tables that differ at most in their common flags
SameButCommon(r1, r2) ==
    /\ r1.exists = r2.exists
    /\ DOMAIN r1.table = DOMAIN r2.table
    /\ \A w \in DOMAIN r1.table : r1.table[w].score = r2.table[w].score

\* C26: with common_first = false, search_prefix on a dataset that differs
\* only in the common flags of the rank table returns the same list (ids,
\* order, matched keys, scores), and every returned entry has common = false,
\* also for an id the rank table marks common.
C26_CommonFlagsIgnored ==
    (Done /\ ~common_first) =>
        /\ \A i \in 1..Len(out) : ~out[i].common
        /\ \A rk2 \in RankTables :
              SameButCommon(rank, rk2) =>
                  search_prefix(manifest, shards, rk2, domain, mode, query, limit,
                                max_keys, FALSE) = out

\* a words search without common_first that returned an id the rank table
\* marks common, next to an id it does not mark common
C26_Witness ==
    /\ Done
    /\ ~common_first
    /\ domain = "words"
    /\ \E a, b \in OutIds : RankCommon(a) /\ ~RankCommon(b) /\ b \in DOMAIN rank.table
    /\ \E rk2 \in RankTables : SameButCommon(rank, rk2) /\ rk2 # rank

(***************************************************************************)
(* C27. The housekeeping tools without --write.                            *)
(***************************************************************************)
\* C27: a run of apply_compression, sanitize_repo, prune_repo or
\* remove_uncompressed_json without --write leaves every file and directory
\* of the repository unchanged: nothing created, rewritten or deleted.
C27_DryRunChangesNothing ==
    [][(runs' # runs /\ ~job'.write) => fs' = fs]_vars

\* remove_uncompressed_json ran without --write, listed files as deleted, and
\* every one of them is still there
C27_Witness ==
    /\ job # <<>>
    /\ job.tool = "remove_uncompressed_json"
    /\ ~job.write
    /\ job.report.deleted # {}
    /\ job.report.deleted \subseteq DOMAIN fs.files

(***************************************************************************)
(* C28. apply_compression --write and the payloads of its candidates.      *)
(***************************************************************************)
\* file f holds content c
Holds(files, f, c) == f \in DOMAIN files /\ files[f] = c

\* C28: at every point of a run of apply_compression --write, and after it
\* stopped on an error, every candidate still has its .json as it was, or
\* its .json.gz holds the converted payload under its final name; with
\* --keep-original every original is still there as it was.
C28_NeverLosesPayload ==
    (job # <<>> /\ job.tool = "apply_compression" /\ job.write) =>
        \A src \in Candidates(job.orig, plan) :
            /\ \/ Holds(fs.files, src, job.orig[src])
               \/ Holds(fs.files, GzOf(src), Converted(job.orig[src], job.sanitize))
            /\ job.keep_original => Holds(fs.files, src, job.orig[src])

\* the run stopped with exit code 1 on a failing candidate after it had
\* converted another one and deleted its original
C28_Witness ==
    /\ job # <<>>
    /\ job.tool = "apply_compression"
    /\ job.write
    /\ job.phase = "exit"
    /\ job.code = 1
    /\ job.converted > 0
    /\ \E src \in Candidates(job.orig, plan) : src \notin DOMAIN fs.files

(***************************************************************************)
(* C29. The files after sanitize_repo --write.                             *)
(***************************************************************************)
RECURSIVE IsSanitized(_)
\* no forbidden key at any depth, and every object-valued schema member at
\* any depth that has a version has version "1.0"
IsSanitized(obj) ==
    IF obj.t = "dict"
    THEN \A i \in 1..Len(obj.items) :
            /\ ~Forbidden(obj.items[i].k)
            /\ IsSanitized(obj.items[i].v)
            /\ (obj.items[i].k = "schema" /\ obj.items[i].v.t = "dict") =>
                  \A j \in 1..Len(obj.items[i].v.items) :
                      obj.items[i].v.items[j].k = "version" =>
                          obj.items[i].v.items[j].v = JStr("1.0")
    ELSE IF obj.t = "list"
    THEN \A i \in 1..Len(obj.elems) : IsSanitized(obj.elems[i])
    ELSE TRUE

\* C29: after sanitize_repo --write processed all files without parse
\* errors, every JSON file under the data directory is a fixed point of
\* sanitize, with no forbidden key and no schema version other than "1.0" at
\* any depth, and a second run reports changed_files = 0.
C29_SanitizedFixedPoint ==
    (job # <<>> /\ job.tool = "sanitize_repo" /\ job.write /\ job.report.parse_errors = 0) =>
        /\ \A f \in iter_json_paths(fs.files) :
              /\ IsSanitized(fs.files[f])
              /\ sanitize(fs.files[f]).value = fs.files[f]
        /\ SanitizeReport(fs.files).changed_files = 0

(***************************************************************************)
(* C30. The deletions of remove_uncompressed_json and prune_repo.          *)
(***************************************************************************)
\* the logical JSON resources of a tree: a directory and a stem
ResourceOf(f) == [dir |-> f.dir, stem |-> f.stem]

JsonResources(files) == { ResourceOf(f) : f \in { g \in DOMAIN files : g.ext \in {"json", "json.gz"} } }

\* the tree as resolve_json_variant sees it
DiskOf(files) ==
    [ r \in JsonResources(files) |->
        [ plain |-> IF File(r.dir, r.stem, "json") \in DOMAIN files THEN "ok" ELSE "absent",
          gz |-> IF File(r.dir, r.stem, "json.gz") \in DOMAIN files THEN "ok" ELSE "absent" ] ]

\* resolve_json_variant finds a file for the path
Resolves(files, path) == resolve_json_variant(DiskOf(files), path) # NonePath

\* a run of remove_uncompressed_json, or of prune_repo with
\* --remove-json-when-gz-exists
RemovalRun ==
    /\ runs' # runs
    /\ \/ job'.tool = "remove_uncompressed_json"
       \/ job'.tool = "prune_repo" /\ job'.remove_json

\* C30 as stated: the two tools delete a .json only if its sibling .json.gz
\* exists, never delete a .json.gz, and every resource that
\* resolve_json_variant resolved before a run it resolves after it.
C30_OnlyRedundantJsonDeleted ==
    [][RemovalRun =>
          /\ \A f \in DOMAIN fs.files \ DOMAIN fs'.files :
                f.ext = "json" /\ GzOf(f) \in DOMAIN fs.files /\ GzOf(f) \in DOMAIN fs'.files
          /\ \A r \in JsonResources(fs.files) : \A path \in {Plain(r), Gz(r)} :
                Resolves(fs.files, path) => Resolves(fs'.files, path)]_vars

\* C30, amended: outside __pycache__ directories the two tools delete a .json
\* only if its sibling .json.gz exists, never delete a .json.gz, and every
\* resource outside __pycache__ directories that resolve_json_variant
\* resolved before a run it resolves after it.
C30_OnlyRedundantJsonDeletedOutsidePycache ==
    [][RemovalRun =>
          /\ \A f \in DOMAIN fs.files \ DOMAIN fs'.files :
                \/ IsPycacheDir(f.dir)
                \/ f.ext = "json" /\ GzOf(f) \in DOMAIN fs.files /\ GzOf(f) \in DOMAIN fs'.files
          /\ \A r \in JsonResources(fs.files) : \A path \in {Plain(r), Gz(r)} :
                (~IsPycacheDir(r.dir) /\ Resolves(fs.files, path)) => Resolves(fs'.files, path)]_vars

\* prune_repo --write --remove-json-when-gz-exists deleted a .json outside
\* __pycache__ whose .json.gz is there, and left a .json without a .json.gz
C30_Witness ==
    /\ job # <<>>
    /\ job.tool = "prune_repo"
    /\ job.write
    /\ job.remove_json
    /\ \E f \in job.report.json_removed :
          ~IsPycacheDir(f.dir) /\ f \notin DOMAIN fs.files /\ GzOf(f) \in DOMAIN fs.files
    /\ \E f \in DOMAIN fs.files : f.ext = "json" /\ GzOf(f) \notin DOMAIN fs.files

====
